---- MODULE Spec2Model ----
(***************************************************************************)
(* Layer invocation (Layer.__call__), call-context propagation, lazy       *)
(* build, Node wiring and graph assembly of tf_keras/engine.               *)
(*                                                                         *)
(* Python values are strings: None, "True", "False"; an argument that was  *)
(* not passed is Absent.  A leaf of inputs/args/kwargs is 0 (a concrete    *)
(* value: eager tensor, numpy array, scalar) or the id t > 0 of a          *)
(* KerasTensor, an index into `tensors`.                                   *)
(***************************************************************************)
EXTENDS Integers, Sequences, FiniteSets, TLC

None == "None"
Absent == "absent"
True == "True"
False == "False"

\* Bounds of the model.
MaxDepth == 3       \* nested invocations in progress
MaxCalls == 3       \* invocations started in one behaviour
MaxNodes == 2       \* Nodes created by graph-construction invocations
MaxWireDepth == 1   \* nested invocations in progress where the arguments vary
MaxAsmNodes == 3    \* Nodes of the stores that graphs are assembled from
MaxPatchNodes == 2  \* Nodes of the stores in which a node's input is replaced
MaxModelCalls == 2  \* invocations of an assembled graph on KerasTensors
MaxCallNodes == 2   \* Nodes of the stores whose graphs are invoked
MaxShape == 2       \* the sizes of the free dimension of an input shape
MaxThreads == 2     \* threads that use one layer at once
MaxMetricCalls == 3 \* calls of add_metric in one behaviour
MaxReplays == 2     \* executions of an assembled graph on concrete values
MaxSupplied == 3    \* values in the list given to set_weights or in a store
MaxFreezes == 2     \* assignments to `trainable` in one behaviour
MaxLosses == 3      \* losses added in one behaviour
MaxNesting == 2     \* invocations in progress in one thread
MaxNested == 2      \* nested invocations begun inside one outermost invocation
MaxBuilds == 2      \* runs of the build of one layer
MaxScopeSegments == 3  \* names in one full name scope
MaxScopes == 2      \* _name_scope_unnester contexts entered at once

\* The two Input() tensors and the layers that exist after construction, and
\* the name of the graph that is assembled from them: a Functional is a
\* Layer and keeps its own _inbound_nodes.
InputLayers == {"input_a", "input_b"}
Layers == {"outer", "mid", "inner"}
GraphLayer == "model"
AllLayers == InputLayers \cup Layers \cup {GraphLayer}
ContextArgs == {"training", "foo_mode"}

\* The attribute names that objects are assigned to, the variables that
\* are assigned (tf.Variable objects; `moving_mean` was created with
\* trainable=False) and, for each layer, the layers assigned to it.
Names == {"a", "b"}
Params == {"kernel", "moving_mean"}

\* The variables that are assigned where one variable replaces another:
\* three created with trainable=True and three with trainable=False.
TrainableParams == {"kernel", "bias", "gamma"}
AllParams == TrainableParams \cup {"moving_mean", "moving_variance", "count"}
SubLayers(u) == IF u = "outer" THEN {"mid", "inner"} ELSE {}

VARIABLES
    learning_phase,   \* backend global learning phase: "unset", "0" or "1"
    stack,            \* CallContext: the frames of the invocations in progress
    called,           \* Layer._called
    built,            \* Layer.built
    buildCount,       \* how often Layer.build ran, per layer
    weights,          \* the variable objects each layer created, in order
    nextVar,          \* next fresh variable id
    tensors,          \* KerasTensor id -> its _keras_history
    inbound_nodes,    \* Layer._inbound_nodes
    outbound_nodes,   \* Layer._outbound_nodes
    ncalls,           \* invocations started so far
    firstWeights,     \* history: the weights each layer had after its first build
    model,            \* the last request to assemble a graph and its result
    config,           \* the description get_config gave of the graph
    model_calls,      \* history: the inputs the assembled graph was invoked on
    output_shape_cache,  \* Functional._output_shape_cache
    shape_query,      \* the last call of compute_output_shape and its result
    attrs,            \* the attributes assigned to each layer: name -> object
    _obj_reference_counts,     \* Layer._obj_reference_counts (0: not a key)
    _self_tracked_trackables,  \* Layer._self_tracked_trackables
    _trainable_weights,        \* Layer._trainable_weights
    _non_trainable_weights,    \* Layer._non_trainable_weights
    _trainable,       \* Layer._trainable
    _metrics,         \* Layer._metrics of one layer: the metric objects
    _metrics_lock,    \* Layer._metrics_lock: 0, or the thread that holds it
    metric_threads,   \* where each thread is in add_metric, and its locals
    metric_errors,    \* history: how often _get_existing_metric raised
    build_threads,    \* where each thread is in Layer.__call__, and on which layer
    raised,           \* history: a `call` of the layer raised
    _keras_mask,      \* the KerasTensors that carry a mask (_keras_mask is not None)
    outcome,          \* the last invocation made from entry to return, and its end
    symbolic_returns, \* history: per layer, the invocations on KerasTensors that returned
    _eager_losses,    \* per layer, the losses that `call` added on concrete values
    usage_errors,     \* history: invocations that the check of the inputs ended
    call_kwargs,      \* per layer and Node, the `training` argument the Node holds
    traced,           \* history: per Node, what was passed and what `call` was given
    replays,          \* history: the executions of the graph on concrete values
    param_values,     \* the value each variable holds
    last_load,        \* the last set_weights or load_own_variables, and its end
    trainable_log,    \* history: the assignments to `trainable` and the lists around them
    _thread_local,    \* Layer._thread_local._eager_losses, per thread and layer
    call_context,     \* per thread, the layers whose invocations are in progress
    nlosses,          \* history: the losses added so far
    added,            \* history: per thread, the nested invocations and the losses added since its outermost invocation began
    returned,         \* history: per thread, its last outermost invocation and `losses` at its end
    cast,             \* the last invocation of a layer with a dtype policy: what `call` was given
    _build_input_shape,  \* Layer._build_input_shape (0: None)
    _input_spec,      \* Layer._input_spec: the size of the last axis it demands (0: None)
    weight_shapes,    \* per layer, the shape each of its weights was created with
    build_request,    \* the last build request or invocation with a shape, and its end
    ended,            \* the number of invocations with a call-context frame that have ended
    _call_context_args,  \* Layer._call_context_args of each layer
    registration,     \* the last _register_call_context_args request and its end
    connectivity,     \* the last _set_connectivity_metadata: what it was given and returned
    _tracked_list,    \* per layer, the variables appended to a list that the layer tracks
    store,            \* the store that save_own_variables wrote last
    _name_scope_unnester_stack,  \* _name_scope_unnester_stack.value (<<>>: not set)
    yielded           \* what the _name_scope_unnester entered last was given and yielded

\* The variables that invocation and the assembly of a graph leave alone.
\* What attribute assignment keeps track of.
tracking == <<attrs, _obj_reference_counts, _self_tracked_trackables,
              _trainable_weights, _non_trainable_weights, _trainable>>

\* The registry of metrics and the threads that add to it.
metric_vars == <<_metrics, _metrics_lock, metric_threads, metric_errors>>

\* What the invocations from entry to return record.
outcome_vars == <<_keras_mask, outcome, symbolic_returns>>

\* The losses of the layers and the input errors.
loss_vars == <<_eager_losses, usage_errors>>

\* What the Nodes hold of the arguments, and the executions of the graph.
replay_vars == <<call_kwargs, traced, replays>>

\* The values of the variables and the last load.
load_vars == <<param_values, last_load>>

\* The losses each thread sees and the invocations it is in.
thread_loss_vars == <<_thread_local, call_context, nlosses, added, returned>>

\* What the claims on dtypes, shapes, registration and scopes are about.
build_vars == <<_build_input_shape, _input_spec, weight_shapes, build_request>>

register_vars == <<_call_context_args, registration>>

store_vars == <<_tracked_list, store>>

scope_vars == <<_name_scope_unnester_stack, yielded>>

after_thread_losses == <<cast, build_vars, ended, register_vars, connectivity,
                         store_vars, scope_vars>>

after_loads == <<trainable_log, thread_loss_vars, after_thread_losses>>

after_replay == <<load_vars, after_loads>>

after_losses == <<replay_vars, after_replay>>

after_outcome == <<loss_vars, after_losses>>

after_metrics == <<build_threads, raised, outcome_vars, after_outcome>>

after_tracking == <<metric_vars, after_metrics>>

after_shapes == <<tracking, after_tracking>>

after_calls == <<output_shape_cache, shape_query, after_shapes>>

rest == <<model_calls, after_calls>>

others == <<config, rest>>

\* Everything in `others` but `ended`.
before_ended == <<config, model_calls, output_shape_cache, shape_query, tracking,
                 metric_vars, build_threads, raised, outcome_vars, loss_vars,
                 replay_vars, load_vars, trainable_log, thread_loss_vars, cast,
                 build_vars, register_vars, connectivity, store_vars, scope_vars>>

vars == <<learning_phase, stack, called, built, buildCount, weights, nextVar,
          tensors, inbound_nodes, outbound_nodes, ncalls, firstWeights, model,
          others>>

-----------------------------------------------------------------------------
(* The layers' classes: what their `call` and `build` declare.             *)

\* Layer._call_context_args after construction: {"training"} plus what the
\* constructor registered.
constructor_context_args(u) ==
    IF u \in {"outer", "inner"} THEN {"training", "foo_mode"} ELSE {"training"}

\* Layer._call_context_args.
call_context_args(u) ==
    IF u \in Layers THEN _call_context_args[u] ELSE constructor_context_args(u)

\* CallFunctionSpec.expected_context_args: the registered arguments that the
\* signature of `call` declares.
\*   outer: call(self, x, training=None)
\*   mid:   call(self, x)
\*   inner: call(self, x, training=True, foo_mode=None)
\*   model: call(self, inputs, training=None, mask=None)
expected_context_args(u) ==
    CASE u = "outer" -> {"training"}
      [] u = "inner" -> {"training", "foo_mode"}
      [] u = GraphLayer -> {"training"}
      [] OTHER -> {}

expects_context_arg(u, a) == a \in expected_context_args(u)

\* The default the signature of `call` gives the argument (None when it
\* gives none).
SignatureDefault(u, a) ==
    IF u = "inner" /\ a = "training" THEN True ELSE None

\* Priority (4): the default of the signature.  A default of None stays
\* None: a graph executed without `training` leaves a layer declared with
\* training=True its own default (test_training_passed_during_construction).
get_context_arg_default(u, a) == SignatureDefault(u, a)

\* Number of variables the layer's own `build` creates (0: build is the
\* default Layer.build, which creates none).
BuildWeights(u) ==
    CASE u = "mid" -> 1
      [] u = "inner" -> 2
      [] OTHER -> 0

-----------------------------------------------------------------------------
(* CallContext                                                             *)

in_call == Len(stack) > 0

\* The value an enclosing invocation propagated: walk outward from the
\* innermost open frame until a frame holds a value.
RECURSIVE get_call_context_arg(_, _)
get_call_context_arg(stk, a) ==
    IF Len(stk) = 0 THEN None
    ELSE IF stk[Len(stk)].call_context_args[a] # None
         THEN stk[Len(stk)].call_context_args[a]
         ELSE get_call_context_arg(SubSeq(stk, 1, Len(stk) - 1), a)

\* call_context.call_context_args.keys() of the innermost frame.
context_keys(stk) ==
    IF Len(stk) = 0 THEN {}
    ELSE {a \in ContextArgs : stk[Len(stk)].call_context_args[a] # None}

global_learning_phase_is_set == learning_phase # "unset"

\* bool(backend.learning_phase())
learning_phase_bool == IF learning_phase = "1" THEN True ELSE False

-----------------------------------------------------------------------------
(* Resolution of the call-context arguments.  `passed` maps each argument  *)
(* to Absent, None, "True" or "False".  Each operator gives, per argument, *)
(* the value `call` receives (seen; Absent when `call` is not given the    *)
(* argument) and the value put in the frame for nested invocations (prop). *)

\* CallFunctionSpec.get_arg_value after arg_was_passed.
ExplicitValue(p) == IF p # Absent THEN p ELSE None

\* PropagatedArgLP with the value of the enclosing invocation ignored.
PropagatedArgNoContext(u, a, p, stk) ==
    IF a \notin (context_keys(stk) \cup call_context_args(u))
    THEN [seen |-> p, prop |-> None]
    ELSE IF expects_context_arg(u, a)
    THEN LET authoritative_value ==
                 IF ExplicitValue(p) # None THEN ExplicitValue(p)
                 ELSE IF a = "training" /\ global_learning_phase_is_set
                      THEN learning_phase_bool
                 ELSE get_context_arg_default(u, a)
         IN [seen |-> authoritative_value, prop |-> authoritative_value]
    ELSE IF p # Absent
         THEN [seen |-> Absent, prop |-> p]
         ELSE [seen |-> Absent, prop |-> get_call_context_arg(stk, a)]

\* One pass of the loop of _get_propagated_call_context_arguments.
PropagatedArgLP(u, a, p, stk) ==
    LET value_from_context == get_call_context_arg(stk, a) IN
    IF a \notin (context_keys(stk) \cup call_context_args(u))
    THEN [seen |-> p, prop |-> None]
    ELSE IF expects_context_arg(u, a)
    THEN LET authoritative_value ==
                 IF ExplicitValue(p) # None THEN ExplicitValue(p)
                 ELSE IF value_from_context # None THEN value_from_context
                 ELSE IF a = "training" /\ global_learning_phase_is_set
                      THEN learning_phase_bool
                 ELSE get_context_arg_default(u, a)
         IN [seen |-> authoritative_value, prop |-> authoritative_value]
    ELSE IF p # Absent
         THEN [seen |-> Absent, prop |-> p]
         ELSE [seen |-> Absent, prop |-> value_from_context]

get_propagated_call_context_arguments(u, passed, stk) ==
    [a \in ContextArgs |-> PropagatedArgLP(u, a, passed[a], stk)]

\* FunctionalArg with the global learning phase looked up before the
\* enclosing invocation.
FunctionalArgLearningPhaseFirst(u, a, p, stk) ==
    IF a \notin call_context_args(u)
    THEN [seen |-> p, prop |-> None]
    ELSE LET value ==
                 IF ExplicitValue(p) # None THEN ExplicitValue(p)
                 ELSE IF a = "training" /\ global_learning_phase_is_set
                      THEN learning_phase_bool
                 ELSE IF get_call_context_arg(stk, a) # None
                      THEN get_call_context_arg(stk, a)
                 ELSE get_context_arg_default(u, a)
         IN [seen |-> IF expects_context_arg(u, a) THEN value ELSE Absent,
             prop |-> value]

\* One pass of the loop of _functional_construction_call over
\* self._call_context_args.
FunctionalArg(u, a, p, stk) ==
    IF a \notin call_context_args(u)
    THEN [seen |-> p, prop |-> None]
    ELSE LET value ==
                 IF ExplicitValue(p) # None THEN ExplicitValue(p)
                 ELSE IF get_call_context_arg(stk, a) # None
                      THEN get_call_context_arg(stk, a)
                 ELSE IF a = "training" /\ global_learning_phase_is_set
                      THEN learning_phase_bool
                 ELSE get_context_arg_default(u, a)
         IN [seen |-> IF expects_context_arg(u, a) THEN value ELSE Absent,
             prop |-> value]

functional_call_context_arguments(u, passed, stk) ==
    [a \in ContextArgs |-> FunctionalArg(u, a, passed[a], stk)]

-----------------------------------------------------------------------------
(* Dispatch                                                                *)

IsKerasTensor(x) == x > 0

\* tf.nest.flatten([inputs, args, kwargs])
Flatten(inputs, args, kwargs) == inputs \o args \o kwargs

\* The check made on the flattened inputs alone.
in_functional_construction_mode_inputs_only(inputs, args, kwargs) ==
    \E i \in 1..Len(inputs) : IsKerasTensor(inputs[i])

in_functional_construction_mode(inputs, args, kwargs) ==
    \E i \in 1..Len(Flatten(inputs, args, kwargs)) :
        IsKerasTensor(Flatten(inputs, args, kwargs)[i])

-----------------------------------------------------------------------------
(* Lazy build                                                              *)

\* The ids of the variables a run of the layer's build creates.
NewWeights(u) == [i \in 1..BuildWeights(u) |-> nextVar + i - 1]

\* _maybe_build without its guard on `built`.
maybe_build_unguarded(u) ==
    /\ buildCount' = [buildCount EXCEPT ![u] = @ + 1]
    /\ weights' = [weights EXCEPT ![u] = @ \o NewWeights(u)]
    /\ nextVar' = nextVar + BuildWeights(u)
    /\ built' = [built EXCEPT ![u] = TRUE]
    /\ firstWeights' =
           IF buildCount[u] = 0
           THEN [firstWeights EXCEPT ![u] = weights[u] \o NewWeights(u)]
           ELSE firstWeights

\* Layer._maybe_build: only a layer that is not built runs build.
maybe_build(u) ==
    IF ~built[u]
    THEN /\ buildCount' = [buildCount EXCEPT ![u] = @ + 1]
         /\ weights' = [weights EXCEPT ![u] = @ \o NewWeights(u)]
         /\ nextVar' = nextVar + BuildWeights(u)
         /\ built' = [built EXCEPT ![u] = TRUE]
         /\ firstWeights' =
                IF buildCount[u] = 0
                THEN [firstWeights EXCEPT ![u] = weights[u] \o NewWeights(u)]
                ELSE firstWeights
    ELSE UNCHANGED <<buildCount, weights, nextVar, built, firstWeights>>

-----------------------------------------------------------------------------
(* Node wiring                                                             *)

KerasInputs(flat_inputs) == SelectSeq(flat_inputs, IsKerasTensor)

\* IsNewObject without the copy of an input returned unmodified.
IsNewObjectNoCopy(flat_inputs, outs, i) == outs[i] = 0

\* IsNewObject that would look only at the first argument for an input
\* returned unmodified.
IsNewObject_first_argument(flat_inputs, outs, i) ==
    \/ outs[i] = 0
    \/ flat_inputs[1] = outs[i]

\* Whether output i of `call` needs a tensor object of its own: it is fresh
\* (0), or it is one of the inputs returned unmodified and is copied by
\* tf.identity.
IsNewObject(flat_inputs, outs, i) ==
    \/ outs[i] = 0
    \/ \E j \in 1..Len(flat_inputs) : flat_inputs[j] = outs[i]

NewBefore(flat_inputs, outs, i) ==
    Cardinality({j \in 1..i : IsNewObject(flat_inputs, outs, j)})

\* The tensor ids of the outputs _set_connectivity_metadata returns.
OutputIds(flat_inputs, outs) ==
    [i \in 1..Len(outs) |->
        IF IsNewObject(flat_inputs, outs, i)
        THEN Len(tensors) + NewBefore(flat_inputs, outs, i)
        ELSE outs[i]]

KerasHistory(layer, node_index, tensor_index) ==
    [layer |-> layer, node_index |-> node_index, tensor_index |-> tensor_index]

\* Node.__init__ as used by _set_connectivity_metadata: the node is appended
\* to the layer's _inbound_nodes and to the _outbound_nodes of the layer of
\* every input, and every output gets its _keras_history.
set_connectivity_metadata(u, flat_inputs, outs) ==
    LET ids == OutputIds(flat_inputs, outs)
        node_index == Len(inbound_nodes[u])
        ins == KerasInputs(flat_inputs)
        n == Len(tensors) + NewBefore(flat_inputs, outs, Len(outs))
        slot(t) == CHOOSE i \in 1..Len(ids) :
                       ids[i] = t /\ \A j \in 1..Len(ids) : ids[j] = t => j <= i
        uses(p) == {j \in 1..Len(ins) : tensors[ins[j]].layer = p}
    IN /\ tensors' =
              [t \in 1..n |->
                  IF \E i \in 1..Len(ids) : ids[i] = t
                  THEN KerasHistory(u, node_index, slot(t) - 1)
                  ELSE tensors[t]]
       /\ inbound_nodes' =
              [inbound_nodes EXCEPT ![u] =
                  Append(@, [keras_inputs |-> ins, outputs |-> ids])]
       /\ outbound_nodes' =
              [p \in AllLayers |->
                  outbound_nodes[p] \o
                      [j \in 1..Cardinality(uses(p)) |-> <<u, node_index>>]]

-----------------------------------------------------------------------------
(* The state after construction: two Input() tensors, three layers.        *)

InputNode(t) == [keras_inputs |-> <<>>, outputs |-> <<t>>]

\* No graph has been requested.
NoModel ==
    [status |-> "none", inputs |-> <<>>, outputs |-> <<>>, layers |-> <<>>,
     nodes |-> <<>>, steps |-> 0]

\* No description has been taken.
NoConfig ==
    [status |-> "none", layers |-> <<>>, input_layers |-> <<>>,
     output_layers |-> <<>>]

Init ==
    /\ learning_phase = "unset"
    /\ stack = <<>>
    /\ called = [u \in Layers |-> FALSE]
    /\ built = [u \in Layers |-> FALSE]
    /\ buildCount = [u \in Layers |-> 0]
    /\ weights = [u \in Layers |-> <<>>]
    /\ nextVar = 1
    /\ tensors = <<KerasHistory("input_a", 0, 0), KerasHistory("input_b", 0, 0)>>
    /\ inbound_nodes =
          [u \in AllLayers |->
              CASE u = "input_a" -> <<InputNode(1)>>
                [] u = "input_b" -> <<InputNode(2)>>
                [] OTHER -> <<>>]
    /\ outbound_nodes = [u \in AllLayers |-> <<>>]
    /\ ncalls = 0
    /\ firstWeights = [u \in Layers |-> <<>>]
    /\ model = NoModel
    /\ config = NoConfig
    /\ model_calls = <<>>
    /\ output_shape_cache = <<>>
    /\ shape_query = [status |-> "none", input_shape |-> <<>>,
                      result |-> [error |-> FALSE, shapes |-> <<>>]]
    /\ attrs = [u \in Layers |-> [n \in Names |-> Absent]]
    /\ _obj_reference_counts = [u \in Layers |-> [o \in AllParams \cup Layers |-> 0]]
    /\ _self_tracked_trackables = [u \in Layers |-> <<>>]
    /\ _trainable_weights = [u \in Layers |-> <<>>]
    /\ _non_trainable_weights = [u \in Layers |-> <<>>]
    /\ _trainable = [u \in Layers |-> TRUE]
    /\ _metrics = <<>>
    /\ _metrics_lock = 0
    /\ metric_threads = [t \in 1..MaxThreads |-> [pc |-> "idle", name |-> None, metric_obj |-> 0, calls |-> 0]]
    /\ metric_errors = 0
    /\ build_threads = [t \in 1..MaxThreads |-> [pc |-> "idle", layer |-> None]]
    /\ raised = [u \in Layers |-> FALSE]
    /\ _keras_mask = {}
    /\ outcome = [status |-> "none", layer |-> None, symbolic |-> FALSE,
                  input_mask |-> FALSE, call_output |-> None,
                  output_mask |-> FALSE]
    /\ symbolic_returns = [u \in AllLayers |-> 0]
    /\ _eager_losses = [u \in Layers |-> 0]
    /\ usage_errors = 0
    /\ call_kwargs = [u \in Layers |-> <<>>]
    /\ traced = [u \in Layers |-> <<>>]
    /\ replays = <<>>
    /\ param_values = [p \in Params |-> 0]
    /\ last_load = [op |-> "none", layer |-> None, supplied |-> 0,
                    expected |-> 0, raised |-> FALSE,
                    before |-> [p \in Params |-> 0]]
    /\ trainable_log = <<>>
    /\ _thread_local = [t \in 1..MaxThreads |-> [u \in Layers |-> <<>>]]
    /\ call_context = [t \in 1..MaxThreads |-> <<>>]
    /\ nlosses = 0
    /\ added = [t \in 1..MaxThreads |-> <<>>]
    /\ returned = [t \in 1..MaxThreads |->
                       [layer |-> None, layers |-> {}, losses |-> <<>>]]
    /\ cast = [status |-> "none", autocast |-> FALSE,
               policy |-> [compute_dtype |-> "float32", variable_dtype |-> "float32"],
               inputs |-> <<>>, received |-> <<>>,
               weight_before |-> "float32", weight_after |-> "float32"]
    /\ _build_input_shape = [u \in Layers |-> 0]
    /\ _input_spec = [u \in Layers |-> 0]
    /\ weight_shapes = [u \in Layers |-> <<>>]
    /\ build_request = [op |-> "none", layer |-> None, shape |-> 0,
                        built_before |-> FALSE, shape_before |-> 0,
                        weights_before |-> <<>>, weights_after |-> <<>>,
                        raised |-> FALSE]
    /\ ended = 0
    /\ _call_context_args = [u \in Layers |-> constructor_context_args(u)]
    /\ registration = [layer |-> None, names |-> {}, called_before |-> FALSE,
                       before |-> {}, after |-> {}, raised |-> FALSE]
    /\ connectivity = [layer |-> None, flat_inputs |-> <<>>, call_outputs |-> <<>>,
                       outputs |-> <<>>, history_before |-> <<>>]
    /\ _tracked_list = [u \in Layers |-> <<>>]
    /\ store = [layer |-> None, values |-> <<>>]
    /\ _name_scope_unnester_stack = <<>>
    /\ yielded = [entered |-> FALSE, full |-> <<>>, outer |-> <<>>, relative |-> <<>>]

-----------------------------------------------------------------------------
(* Actions                                                                 *)

\* backend.set_learning_phase / clear_session, between invocations.
SetLearningPhase(v) ==
    /\ ~in_call
    /\ learning_phase # v
    /\ learning_phase' = v
    /\ UNCHANGED <<stack, called, built, buildCount, weights, nextVar, tensors,
                   inbound_nodes, outbound_nodes, ncalls, firstWeights, model, others>>

OnStack(u) == \E i \in 1..Len(stack) : stack[i].layer = u

FunctionalFrames == Cardinality({i \in 1..Len(stack) : stack[i].path = "functional"})

NodesCreated ==
    Len(inbound_nodes["outer"]) + Len(inbound_nodes["mid"])
        + Len(inbound_nodes["inner"])

CallArgs(inputs, args, kwargs) ==
    [inputs |-> inputs, args |-> args, kwargs |-> kwargs]

Tensors == 1..Len(tensors)

\* The argument structures of an invocation, by the signature of `call`:
\*   outer: call(self, inputs) with a list of two inputs
\*   mid:   call(self, x, y=None, training..., z=None): a tensor may come
\*          only in a positional or only in a keyword argument
\*   inner: call(self, x)
WireCallArgs(u) ==
    CASE u = "outer" ->
           {CallArgs(<<0, 0>>, <<>>, <<>>)}
           \cup {CallArgs(<<t[1], t[2]>>, <<>>, <<>>) :
                    t \in {p \in Tensors \X Tensors : p[1] < p[2]}}
      [] u = "mid" ->
           {CallArgs(<<0>>, <<0>>, <<0>>), CallArgs(<<0>>, <<1>>, <<>>),
            CallArgs(<<0>>, <<>>, <<1>>), CallArgs(<<2>>, <<>>, <<1>>)}
      [] OTHER ->
           {CallArgs(<<0>>, <<>>, <<>>)}
           \cup {CallArgs(<<t>>, <<>>, <<>>) : t \in Tensors}

\* Concrete inputs, or the first Input() tensor.
CtxCallArgs == {CallArgs(<<0>>, <<>>, <<>>), CallArgs(<<1>>, <<>>, <<>>)}

NotPassed == [a \in ContextArgs |-> Absent]

\* What the caller passes for the call-context arguments: nothing, or one
\* argument registered with the layer as None, True or False.
PassedChoices(u) ==
    {NotPassed} \cup
    {[NotPassed EXCEPT ![a] = v] : a \in call_context_args(u), v \in {None, True, False}}

WirePassedChoices(u) ==
    IF u = "outer" THEN {[NotPassed EXCEPT !["training"] = True]} ELSE {NotPassed}

\* Layer.__call__ up to the start of `call`: from the top level, or from the
\* `call` of the layer whose frame is innermost.
Call(u, ca, passed) ==
    /\ Len(stack) < MaxDepth
    /\ ncalls < MaxCalls
    /\ ~OnStack(u)
    /\ LET functional ==
               in_functional_construction_mode(ca.inputs, ca.args, ca.kwargs)
           r == IF functional
                THEN functional_call_context_arguments(u, passed, stack)
                ELSE get_propagated_call_context_arguments(u, passed, stack)
       IN /\ functional => FunctionalFrames + NodesCreated < MaxNodes
          /\ stack' = Append(stack,
                [layer |-> u,
                 path |-> IF functional THEN "functional" ELSE "immediate",
                 passed |-> passed,
                 seen |-> [a \in ContextArgs |-> r[a].seen],
                 call_context_args |-> [a \in ContextArgs |-> r[a].prop],
                 inputs |-> ca.inputs, args |-> ca.args, kwargs |-> ca.kwargs])
    /\ called' = [called EXCEPT ![u] = TRUE]
    /\ maybe_build(u)
    /\ ncalls' = ncalls + 1
    /\ UNCHANGED <<learning_phase, tensors, inbound_nodes, outbound_nodes, model, others>>

Top == stack[Len(stack)]

Pop == SubSeq(stack, 1, Len(stack) - 1)

\* The invocation of the innermost frame ends, by a return or by an exception.
End == ended + 1

\* `call` returned in immediate mode: the frame is left.
ReturnImmediate ==
    /\ in_call
    /\ Top.path = "immediate"
    /\ stack' = Pop
    /\ ended' = End
    /\ UNCHANGED <<learning_phase, called, built, buildCount, weights, nextVar,
                   tensors, inbound_nodes, outbound_nodes, ncalls, firstWeights, model,
                   before_ended>>

\* What `call` returns: one fresh tensor, two fresh tensors, or its first
\* KerasTensor argument unmodified.
OutputChoices(flat_inputs) ==
    {<<0>>, <<0, 0>>} \cup {<<KerasInputs(flat_inputs)[1]>>}

\* `call` returned in graph-construction mode: the Node is created and the
\* frame is left.
ReturnFunctional ==
    /\ in_call
    /\ Top.path = "functional"
    /\ \E outs \in OutputChoices(Flatten(Top.inputs, Top.args, Top.kwargs)) :
           set_connectivity_metadata(
               Top.layer, Flatten(Top.inputs, Top.args, Top.kwargs), outs)
    /\ stack' = Pop
    /\ ended' = End
    /\ UNCHANGED <<learning_phase, called, built, buildCount, weights, nextVar,
                   ncalls, firstWeights, model, before_ended>>

\* An exception that would leave __call__ with its frame still entered.
CallRaises_keeps_frame ==
    /\ in_call
    /\ ended' = End
    /\ UNCHANGED <<learning_phase, stack, called, built, buildCount, weights, nextVar,
                   tensors, inbound_nodes, outbound_nodes, ncalls, firstWeights, model,
                   before_ended>>

\* `call` raised: the frame is left and nothing is recorded.
CallRaises ==
    /\ in_call
    /\ stack' = Pop
    /\ ended' = End
    /\ UNCHANGED <<learning_phase, called, built, buildCount, weights, nextVar,
                   tensors, inbound_nodes, outbound_nodes, ncalls, firstWeights, model,
                   before_ended>>

Next ==
    \/ \E v \in {"unset", "0", "1"} : SetLearningPhase(v)
    \/ \E u \in Layers, ca \in CtxCallArgs :
          \E passed \in PassedChoices(u) : Call(u, ca, passed)
    \/ ReturnImmediate
    \/ ReturnFunctional
    \/ CallRaises

Spec == Init /\ [][Next]_vars

\* The same operations with the argument structures varied and the
\* call-context arguments mostly left alone.
NextWire ==
    \/ SetLearningPhase("1")
    \/ \E u \in Layers : \E ca \in WireCallArgs(u) :
          \E passed \in WirePassedChoices(u) :
              Len(stack) < MaxWireDepth /\ Call(u, ca, passed)
    \/ ReturnImmediate
    \/ ReturnFunctional
    \/ CallRaises

SpecWire == Init /\ [][NextWire]_vars

-----------------------------------------------------------------------------
(* Graph assembly: Functional(inputs, outputs).  A Node is named by the     *)
(* pair <<layer, node_index>> of the _keras_history of its outputs.         *)

Range(f) == {f[i] : i \in DOMAIN f}

IndexOf(seq, x) == CHOOSE i \in 1..Len(seq) : seq[i] = x

Max(a, b) == IF a >= b THEN a ELSE b

\* dict.get(k, default) and dict[k] = v on a dict held as a function.
Get(f, k, default) == IF k \in DOMAIN f THEN f[k] ELSE default

Put(f, k, v) == [x \in DOMAIN f \cup {k} |-> IF x = k THEN v ELSE f[x]]

\* layer._inbound_nodes[node_index] of the _keras_history of a tensor.
NodeOf(t) == <<tensors[t].layer, tensors[t].node_index>>

NodeRec(k) == inbound_nodes[k[1]][k[2] + 1]

\* Node.parent_nodes: the Node that produced each keras input, in order.
parent_nodes(k) ==
    [j \in 1..Len(NodeRec(k).keras_inputs) |-> NodeOf(NodeRec(k).keras_inputs[j])]

is_input(k) == k[1] \in InputLayers

\* The state of the reverse walk: Unvisited nodes are in neither set,
\* Visiting nodes are in nodes_in_progress, Visited nodes in finished_nodes.
WalkStart ==
    [finished_nodes |-> {}, nodes_in_progress |-> {},
     nodes_in_decreasing_depth |-> <<>>, layer_indices |-> <<>>,
     error |-> "ok", steps |-> 0]

RECURSIVE build_map_no_cycle_check(_, _)
RECURSIVE visit_inputs_no_cycle_check(_, _, _)
\* build_map with a node that is being visited taken for a visited one.
build_map_no_cycle_check(t, st) ==
    LET k == NodeOf(t)
        s0 == [st EXCEPT !.steps = @ + 1]
    IN IF st.error # "ok" THEN st
       ELSE IF k \in st.finished_nodes \cup st.nodes_in_progress THEN s0
       ELSE LET s1 == [s0 EXCEPT
                         !.layer_indices =
                             IF k[1] \in Range(@) THEN @ ELSE Append(@, k[1]),
                         !.nodes_in_progress = @ \cup {k}]
                s2 == visit_inputs_no_cycle_check(NodeRec(k).keras_inputs, 1, s1)
            IN [s2 EXCEPT !.finished_nodes = @ \cup {k},
                          !.nodes_in_progress = @ \ {k},
                          !.nodes_in_decreasing_depth = Append(@, k)]

visit_inputs_no_cycle_check(ins, j, st) ==
    IF j > Len(ins) THEN st
    ELSE visit_inputs_no_cycle_check(
             ins, j + 1, build_map_no_cycle_check(ins[j], st))

RECURSIVE build_map(_, _)
RECURSIVE visit_inputs(_, _, _)
\* The reverse walk from one tensor: a visited node is skipped, a node that
\* is being visited is a cycle, an unvisited node is visited: its layer is
\* given the next index on first discovery, its inputs are walked in order,
\* and the node is appended to the order once they are all visited.
build_map(t, st) ==
    LET k == NodeOf(t)
        s0 == [st EXCEPT !.steps = @ + 1]
    IN IF st.error # "ok" THEN st
       ELSE IF k \in st.finished_nodes THEN s0
       ELSE IF k \in st.nodes_in_progress THEN [s0 EXCEPT !.error = "cycle"]
       ELSE LET s1 == [s0 EXCEPT
                         !.layer_indices =
                             IF k[1] \in Range(@) THEN @ ELSE Append(@, k[1]),
                         !.nodes_in_progress = @ \cup {k}]
                s2 == visit_inputs(NodeRec(k).keras_inputs, 1, s1)
            IN IF s2.error # "ok" THEN s2
               ELSE [s2 EXCEPT !.finished_nodes = @ \cup {k},
                               !.nodes_in_progress = @ \ {k},
                               !.nodes_in_decreasing_depth = Append(@, k)]

visit_inputs(ins, j, st) ==
    IF j > Len(ins) THEN st
    ELSE visit_inputs(ins, j + 1, build_map(ins[j], st))

\* The walk from every requested output, in order.
RECURSIVE walk_outputs(_, _, _)
walk_outputs(outs, i, st) ==
    IF i > Len(outs) THEN st
    ELSE walk_outputs(outs, i + 1, build_map(outs[i], st))

\* The depth pass.  nodes_depths and layers_depths are the two dicts;
\* node_keys and layer_keys are their keys in the order they were inserted.
DepthStart ==
    [nodes_depths |-> <<>>, layers_depths |-> <<>>, node_keys |-> <<>>,
     layer_keys |-> <<>>]

SetNodeDepth(d, k, v) ==
    [d EXCEPT !.nodes_depths = Put(@, k, v),
              !.node_keys = IF k \in Range(@) THEN @ ELSE Append(@, k)]

\* What an equality by structure would compare: the class and the
\* configuration of a layer.  The two Input() layers have the same.
structure(l) == IF l \in InputLayers THEN "InputLayer" ELSE l

\* SetLayerDepth with a dict that takes layers of equal structure for one key.
SetLayerDepth_by_structure(d, l, v) ==
    [d EXCEPT !.layers_depths = Put(@, l, v),
              !.layer_keys = IF \E x \in Range(@) : structure(x) = structure(l)
                             THEN @ ELSE Append(@, l)]

\* layers_depths[layer] = depth: the dict is keyed by the layer objects, which
\* hash by identity.
SetLayerDepth(d, l, v) ==
    [d EXCEPT !.layers_depths = Put(@, l, v),
              !.layer_keys = IF l \in Range(@) THEN @ ELSE Append(@, l)]

\* parent_depth with the parent left on the level of its consumer.
parent_depth_same_level(depth, previous_depth) == Max(depth, previous_depth)

\* The parents of a node are put at least one level deeper than the node.
parent_depth(depth, previous_depth) == Max(depth + 1, previous_depth)

RECURSIVE deepen_parents(_, _, _, _)
deepen_parents(ps, j, depth, d) ==
    IF j > Len(ps) THEN d
    ELSE deepen_parents(ps, j + 1, depth,
             SetNodeDepth(d, ps[j],
                 parent_depth(depth, Get(d.nodes_depths, ps[j], 0))))

\* The depth of a node when the pass reaches it: the depth its consumers
\* gave it (0 when it has none), or the depth its layer already has from
\* another of its nodes, if that is more.
node_depth(d, k) ==
    Max(Get(d.nodes_depths, k, 0), Get(d.layers_depths, k[1], 0))

\* for node in reversed(nodes_in_decreasing_depth)
RECURSIVE depth_pass(_, _, _)
depth_pass(order, i, d) ==
    IF i < 1 THEN d
    ELSE LET k == order[i]
             depth == node_depth(d, k)
             d1 == SetLayerDepth(SetNodeDepth(d, k, depth), k[1], depth)
         IN depth_pass(order, i - 1, deepen_parents(parent_nodes(k), 1, depth, d1))

\* add_unconnected_inputs with the inputs the walk did not reach left out.
add_unconnected_inputs_left_out(ins, i, d) == d

\* A requested input that the walk did not reach: its layer and its node are
\* put at depth 0.
RECURSIVE add_unconnected_inputs(_, _, _)
add_unconnected_inputs(ins, i, d) ==
    IF i > Len(ins) THEN d
    ELSE add_unconnected_inputs(ins, i + 1,
             IF tensors[ins[i]].layer \in DOMAIN d.layers_depths THEN d
             ELSE SetLayerDepth(SetNodeDepth(d, NodeOf(ins[i]), 0),
                                tensors[ins[i]].layer, 0))

\* layer_index with no layer given an index by the walk.
layer_index_undiscovered(layer_indices, l) == -1

\* The index a layer is sorted by within its depth: its place in the order
\* of first discovery, and -1 for the layer of an unconnected input.
layer_index(layer_indices, l) ==
    IF l \in Range(layer_indices) THEN IndexOf(layer_indices, l) ELSE -1

\* sorted(seq, key=...) of a sequence without repeats, `key` a function
\* on its elements: the sort is stable, so elements of equal key keep their
\* places.
RECURSIVE Sorted(_, _)
Sorted(seq, key) ==
    IF Len(seq) = 0 THEN <<>>
    ELSE LET first == CHOOSE i \in 1..Len(seq) :
                          \A j \in 1..Len(seq) :
                              \/ key[seq[i]] < key[seq[j]]
                              \/ key[seq[i]] = key[seq[j]] /\ i <= j
         IN <<seq[first]>> \o
                Sorted(SelectSeq(seq, LAMBDA y : y # seq[first]), key)

\* Network.layers: by decreasing depth and, within a depth, by the order of
\* first discovery.
sorted_layers(d, layer_indices) ==
    LET n == Len(d.layer_keys) + 2
    IN Sorted(d.layer_keys,
              [l \in Range(d.layer_keys) |->
                  (layer_index(layer_indices, l) + 1) - n * d.layers_depths[l]])

\* The nodes of the network in the order they are run: by decreasing depth.
sorted_nodes(d) ==
    Sorted(d.node_keys, [k \in Range(d.node_keys) |-> 0 - d.nodes_depths[k]])

\* inputs_computable with the output of every InputLayer taken as given.
inputs_computable_any_input(k, computable_tensors) ==
    \A j \in 1..Len(NodeRec(k).keras_inputs) :
        \/ NodeRec(k).keras_inputs[j] \in computable_tensors
        \/ is_input(NodeOf(NodeRec(k).keras_inputs[j]))

\* Every input of the node is a requested input or the output of a node
\* run before it.
inputs_computable(k, computable_tensors) ==
    \A j \in 1..Len(NodeRec(k).keras_inputs) :
        NodeRec(k).keras_inputs[j] \in computable_tensors

\* The check that the graph can be run from the requested inputs.
RECURSIVE check_computable(_, _, _)
check_computable(nodes, i, computable_tensors) ==
    IF i > Len(nodes) THEN "ok"
    ELSE IF is_input(nodes[i])
         THEN check_computable(nodes, i + 1, computable_tensors)
    ELSE IF ~inputs_computable(nodes[i], computable_tensors) THEN "disconnected"
    ELSE check_computable(nodes, i + 1,
             computable_tensors \cup Range(NodeRec(nodes[i]).outputs))

\* validate_inputs with the same demand made of the outputs.
validate_inputs_and_outputs(ins, outs) ==
    IF Cardinality(Range(ins)) # Len(ins) \/ Cardinality(Range(outs)) # Len(outs)
    THEN "redundant_inputs" ELSE "ok"

\* No tensor may come twice in the requested inputs.
validate_inputs(ins, outs) ==
    IF Cardinality(Range(ins)) # Len(ins) THEN "redundant_inputs" ELSE "ok"

Failed(status, ins, outs, steps) ==
    [status |-> status, inputs |-> ins, outputs |-> outs, layers |-> <<>>,
     nodes |-> <<>>, steps |-> steps]

\* Functional.__init__ on lists of requested inputs and outputs: the result
\* is the graph, or the error raised.
map_graph_network(ins, outs) ==
    IF validate_inputs(ins, outs) # "ok"
    THEN Failed(validate_inputs(ins, outs), ins, outs, 0)
    ELSE LET walk == walk_outputs(outs, 1, WalkStart)
             d == add_unconnected_inputs(ins, 1,
                      depth_pass(walk.nodes_in_decreasing_depth,
                                 Len(walk.nodes_in_decreasing_depth), DepthStart))
             nodes == sorted_nodes(d)
             computable == check_computable(nodes, 1, Range(ins))
         IN IF walk.error # "ok" THEN Failed(walk.error, ins, outs, walk.steps)
            ELSE IF computable # "ok" THEN Failed(computable, ins, outs, walk.steps)
            ELSE [status |-> "ok", inputs |-> ins, outputs |-> outs,
                  layers |-> sorted_layers(d, walk.layer_indices),
                  nodes |-> nodes, steps |-> walk.steps]

\* Some Node has an input that is not older than its own outputs: only a
\* Node whose inputs were replaced after its creation has.
Rewired ==
    \E u \in Layers : \E i \in 1..Len(inbound_nodes[u]) :
        \E j \in 1..Len(inbound_nodes[u][i].keras_inputs) :
            inbound_nodes[u][i].keras_inputs[j] >= inbound_nodes[u][i].outputs[1]

\* The arguments of the invocations that the graphs are built from:
\*   outer: call(self, inputs) with a list of two KerasTensors, the second
\*          of them the newest tensor
\*   mid, inner: call(self, x) with one KerasTensor
AsmCallArgs(u) ==
    IF u = "outer"
    THEN {CallArgs(<<t, Len(tensors)>>, <<>>, <<>>) : t \in 1..(Len(tensors) - 1)}
    ELSE {CallArgs(<<t>>, <<>>, <<>>) : t \in Tensors}

\* Layer.__call__ on KerasTensors from the top level, from entry to return,
\* of a layer whose `call` invokes no layer and returns one fresh tensor.
SymbolicCall(u, ca) ==
    /\ ~in_call
    /\ model.status = "none"
    /\ ~Rewired
    /\ NodesCreated < MaxAsmNodes
    /\ in_functional_construction_mode(ca.inputs, ca.args, ca.kwargs)
    /\ called' = [called EXCEPT ![u] = TRUE]
    /\ maybe_build(u)
    /\ ncalls' = ncalls + 1
    /\ set_connectivity_metadata(u, Flatten(ca.inputs, ca.args, ca.kwargs), <<0>>)
    /\ UNCHANGED <<learning_phase, stack, model, others>>

\* The first input of a Node is replaced by the newest tensor after the Node
\* was created.  Nothing but an assignment to the record makes a Node depend
\* on its own output.
PatchInput(u, i) ==
    /\ ~in_call
    /\ model.status = "none"
    /\ ~Rewired
    /\ NodesCreated <= MaxPatchNodes
    /\ i \in 1..Len(inbound_nodes[u])
    /\ inbound_nodes' =
           [inbound_nodes EXCEPT ![u][i].keras_inputs[1] = Len(tensors)]
    /\ UNCHANGED <<learning_phase, stack, called, built, buildCount, weights,
                   nextVar, tensors, outbound_nodes, ncalls, firstWeights, model, others>>

\* The requested inputs: Input() tensors, the first possibly twice.
AsmInputs == {<<1>>, <<1, 2>>, <<1, 1>>}

\* The requested outputs: one tensor, or the newest tensor with another or
\* with itself.
AsmOutputs ==
    {<<t>> : t \in Tensors}
    \cup {<<t, Len(tensors)>> : t \in Tensors}
    \cup {<<Len(tensors), t>> : t \in Tensors}

\* Functional(inputs, outputs), once the invocations are made.
Assemble(ins, outs) ==
    /\ ~in_call
    /\ model.status = "none"
    /\ model' = map_graph_network(ins, outs)
    /\ UNCHANGED <<learning_phase, stack, called, built, buildCount, weights,
                   nextVar, tensors, inbound_nodes, outbound_nodes, ncalls,
                   firstWeights, others>>

\* Graphs are built by invocations on KerasTensors and then assembled.
NextAsm ==
    \/ \E u \in Layers : \E ca \in AsmCallArgs(u) : SymbolicCall(u, ca)
    \/ \E u \in Layers : \E i \in 1..MaxAsmNodes : PatchInput(u, i)
    \/ \E ins \in AsmInputs : \E outs \in AsmOutputs : Assemble(ins, outs)

SpecAsm == Init /\ [][NextAsm]_vars

-----------------------------------------------------------------------------
(* Properties                                                              *)

Frames == 1..Len(stack)

\* C1: a layer that has been invoked, any number of times, has run build
\* exactly once, and its weights are the variable objects it had after the
\* first invocation.
C1_BuildOnce ==
    \A u \in Layers :
        /\ buildCount[u] <= 1
        /\ called[u] => /\ buildCount[u] = 1
                        /\ built[u]
                        /\ weights[u] = firstWeights[u]
                        /\ Len(weights[u]) = BuildWeights(u)

\* A layer with weights was invoked twice (no other layer was, and two
\* invocations were started).
C1_Witness ==
    /\ ncalls >= 2
    /\ called = [u \in Layers |-> u = "inner"]
    /\ Len(weights["inner"]) = 2
    /\ stack = <<>>

\* The value inherited by frame i: what the enclosing invocations propagated.
InheritedValue(i, a) == get_call_context_arg(SubSeq(stack, 1, i - 1), a)

HasValue(p) == p \notin {Absent, None}

\* C2 as stated: explicit value, else enclosing invocation, else the global
\* learning phase if set, else the default declared by the signature.
C2_StatedPriority(u, a, p, inherited) ==
    IF HasValue(p) THEN p
    ELSE IF inherited # None THEN inherited
    ELSE IF learning_phase # "unset"
         THEN (IF learning_phase = "1" THEN True ELSE False)
    ELSE SignatureDefault(u, a)

C2_AsStated ==
    \A i \in Frames : \A a \in expected_context_args(stack[i].layer) :
        stack[i].seen[a] =
            C2_StatedPriority(stack[i].layer, a, stack[i].passed[a],
                              InheritedValue(i, a))

\* C2 amended: the global learning phase is consulted for `training` only.
C2_AmendedPriority(u, a, p, inherited) ==
    IF HasValue(p) THEN p
    ELSE IF inherited # None THEN inherited
    ELSE IF a = "training" /\ learning_phase # "unset"
         THEN (IF learning_phase = "1" THEN True ELSE False)
    ELSE SignatureDefault(u, a)

\* C2 (amended): the value `call` observes for a declared call-context
\* argument is the explicit non-None value, else the inherited value, else
\* (for `training` only) the global learning phase if set, else the default
\* of the signature.
C2_Priority ==
    \A i \in Frames : \A a \in expected_context_args(stack[i].layer) :
        stack[i].seen[a] =
            C2_AmendedPriority(stack[i].layer, a, stack[i].passed[a],
                               InheritedValue(i, a))

\* A nested graph-construction invocation inherits False from the enclosing
\* invocation although the learning phase is set to 1 and its own default
\* is True.
C2_Witness ==
    /\ Len(stack) = 2
    /\ learning_phase = "1"
    /\ stack[1].passed["training"] = False
    /\ stack[2].layer = "inner"
    /\ stack[2].path = "functional"
    /\ stack[2].passed["training"] = None
    /\ stack[2].seen["training"] = False

\* C3: a value passed explicitly to an outer invocation reaches every nested
\* invocation that declares the argument when no invocation in between (nor
\* the nested one) is passed the argument.
C3_Propagation ==
    \A i \in Frames : \A j \in Frames : \A a \in ContextArgs :
        ( /\ i < j
          /\ HasValue(stack[i].passed[a])
          /\ \A k \in (i + 1)..j : stack[k].passed[a] = Absent
          /\ a \in expected_context_args(stack[j].layer) )
        => stack[j].seen[a] = stack[i].passed[a]

\* foo_mode=True passed to `outer` reaches `inner` through `mid`, whose call
\* does not declare it.
C3_Witness ==
    /\ Len(stack) = 3
    /\ stack[1].layer = "outer" /\ stack[1].passed["foo_mode"] = True
    /\ stack[2].layer = "mid" /\ stack[2].passed = NotPassed
    /\ stack[3].layer = "inner" /\ stack[3].passed = NotPassed
    /\ stack[3].seen["foo_mode"] = True

SymbolicLeaf(f) ==
    \/ \E i \in 1..Len(f.inputs) : f.inputs[i] > 0
    \/ \E i \in 1..Len(f.args) : f.args[i] > 0
    \/ \E i \in 1..Len(f.kwargs) : f.kwargs[i] > 0

\* C4: an invocation is on the graph-construction path iff some leaf of its
\* inputs, positional arguments or keyword arguments is a KerasTensor.
C4_Mode ==
    \A i \in Frames : (stack[i].path = "functional") <=> SymbolicLeaf(stack[i])

\* The only KerasTensor is in a keyword argument.
C4_Witness ==
    /\ Len(stack) = 1
    /\ stack[1].inputs = <<0>> /\ stack[1].args = <<>> /\ stack[1].kwargs = <<1>>
    /\ stack[1].path = "functional"

\* Every output of every node names that node and its slot, and the node is
\* in the outbound list of the layer of each of its inputs.
C5_Linked ==
    \A u \in AllLayers : \A i \in 1..Len(inbound_nodes[u]) :
        LET node == inbound_nodes[u][i] IN
        /\ \A s \in 1..Len(node.outputs) :
               tensors[node.outputs[s]] = KerasHistory(u, i - 1, s - 1)
        /\ \A j \in 1..Len(node.keras_inputs) :
               <<u, i - 1>> \in Range(outbound_nodes[tensors[node.keras_inputs[j]].layer])

\* A step that changes the wiring is the return of a graph-construction
\* invocation: it appends one node to the invoked layer, made of the
\* KerasTensor arguments and of outputs that are new tensor objects, and
\* leaves the _keras_history of every existing tensor alone.
C5_Step ==
    (<<tensors, inbound_nodes, outbound_nodes>>' # <<tensors, inbound_nodes, outbound_nodes>>)
    => /\ in_call /\ Top.path = "functional" /\ stack' = Pop
       /\ LET u == Top.layer
              node == inbound_nodes'[u][Len(inbound_nodes[u]) + 1]
          IN /\ inbound_nodes' = [inbound_nodes EXCEPT ![u] = Append(@, node)]
             /\ node.keras_inputs =
                    SelectSeq(Top.inputs \o Top.args \o Top.kwargs, IsKerasTensor)
             /\ Len(node.outputs) >= 1
             /\ \A s \in 1..Len(node.outputs) : node.outputs[s] > Len(tensors)
             /\ \A t \in 1..Len(tensors) : tensors'[t] = tensors[t]

\* C5: a graph-construction invocation creates one node, linked into the
\* invoked layer's list and into the list of every layer that produced an
\* input; every output carries (layer, node index, slot) and every input
\* keeps the _keras_history it had.
C5_Connectivity == [](C5_Linked) /\ [][C5_Step]_vars

\* `outer` was invoked on the output of `inner` and on an Input() tensor.
C5_Witness ==
    /\ Len(inbound_nodes["outer"]) = 1
    /\ Len(inbound_nodes["inner"]) = 1
    /\ inbound_nodes["outer"][1].keras_inputs = <<2, 3>>
    /\ tensors[3].layer = "inner"
    /\ <<"outer", 0>> \in Range(outbound_nodes["inner"])
    /\ <<"outer", 0>> \in Range(outbound_nodes["input_b"])

-----------------------------------------------------------------------------
(* Properties of graph assembly.  They speak of the records themselves, not *)
(* of the walk that map_graph_network makes over them.                      *)

Requested == model.status # "none"

Parents(k) == Range(parent_nodes(k))

\* The nodes in S and every node one of them depends on.
RECURSIVE Closure(_)
Closure(S) ==
    LET S2 == S \cup UNION {Parents(k) : k \in S}
    IN IF S2 = S THEN S ELSE Closure(S2)

\* The nodes that feed k, directly or through other nodes.
Ancestors(k) == Closure(Parents(k))

\* The nodes the requested outputs depend on.
GraphNodes == Closure({NodeOf(t) : t \in Range(model.outputs)})

Acyclic == \A k \in GraphNodes : k \notin Ancestors(k)

HasRepeat(seq) == Cardinality(Range(seq)) # Len(seq)

\* An output of layer l1 is an input of an invocation of layer l2 in the graph.
Feeds(l1, l2) ==
    \E k \in GraphNodes : k[1] = l2 /\ \E p \in Parents(k) : p[1] = l1

\* A requested output depends, through a Node, on an Input() tensor that
\* was not requested.
DependsOnUnrequested ==
    \E k \in GraphNodes :
        \E j \in 1..Len(NodeRec(k).keras_inputs) :
            /\ is_input(NodeOf(NodeRec(k).keras_inputs[j]))
            /\ NodeRec(k).keras_inputs[j] \notin Range(model.inputs)

\* C6 as stated: in the order of layers of an assembled acyclic graph every
\* layer comes after every layer that feeds it.
C6_AsStated ==
    model.status = "ok" /\ Acyclic =>
        \A l1 \in Range(model.layers) : \A l2 \in Range(model.layers) :
            Feeds(l1, l2) =>
                IndexOf(model.layers, l1) < IndexOf(model.layers, l2)

\* C6: in an assembled graph the order of Nodes puts every Node after the
\* Nodes that feed it; the order of layers holds every layer of the graph
\* once, and every layer comes after all the layers that feed one of its
\* Nodes (its deepest), so after all the layers that feed it when it has one
\* Node in the graph.
C6_Order ==
    model.status = "ok" =>
        /\ GraphNodes \subseteq Range(model.nodes)
        /\ ~HasRepeat(model.nodes)
        /\ \A k \in Range(model.nodes) : \A p \in Parents(k) :
               /\ p \in Range(model.nodes)
               /\ IndexOf(model.nodes, p) < IndexOf(model.nodes, k)
        /\ Range(model.layers) = {k[1] : k \in Range(model.nodes)}
        /\ ~HasRepeat(model.layers)
        /\ \A l \in Range(model.layers) :
               \E k \in Range(model.nodes) :
                   /\ k[1] = l
                   /\ \A p \in Parents(k) :
                          IndexOf(model.layers, p[1]) < IndexOf(model.layers, l)

\* A graph is assembled in which a layer is invoked at two depths: one of
\* its Nodes feeds, through another layer, another of its Nodes.
C6_Witness ==
    /\ model.status = "ok"
    /\ \E k1 \in Range(model.nodes) : \E k2 \in Range(model.nodes) :
           /\ k1[1] = k2[1]
           /\ k1 # k2
           /\ \E p \in Ancestors(k2) : p[1] # k1[1] /\ k1 \in Ancestors(p)

\* The inputs of all Nodes, counted: the walk follows each at most once.
Edges ==
    {e \in (AllLayers \X (0..MaxAsmNodes)) \X (1..2) :
        /\ e[1][2] < Len(inbound_nodes[e[1][1]])
        /\ e[2] <= Len(NodeRec(e[1]).keras_inputs)}

\* C7: when a requested output depends on a Node that depends on its own
\* output, no graph is returned: the request fails, with the cycle error
\* unless the inputs were rejected first; the cycle error is raised for no
\* other request; and the walk ends after at most one step for each
\* requested output and each input of a Node.
C7_CycleRejected ==
    Requested =>
        /\ ~Acyclic => /\ model.status \in {"cycle", "redundant_inputs"}
                       /\ model.layers = <<>>
                       /\ model.nodes = <<>>
        /\ ~Acyclic /\ ~HasRepeat(model.inputs) => model.status = "cycle"
        /\ model.status = "cycle" => ~Acyclic
        /\ model.steps <= Len(model.outputs) + Cardinality(Edges)

\* The cycle error was raised for a Node that depends on its own output
\* through a Node of another layer.
C7_Witness ==
    /\ model.status = "cycle"
    /\ \E k \in GraphNodes : \E p \in Ancestors(k) :
           p[1] # k[1] /\ k \in Ancestors(p)

\* C8: a request whose outputs depend, through a Node, on an Input() tensor
\* that is not among the requested inputs fails; the error is the
\* disconnected-graph error unless the inputs were rejected or a cycle was
\* met first.
C8_UnrequestedInput ==
    Requested /\ DependsOnUnrequested =>
        /\ model.status \in {"disconnected", "cycle", "redundant_inputs"}
        /\ model.layers = <<>>
        /\ Acyclic /\ ~HasRepeat(model.inputs) => model.status = "disconnected"

\* The only requested input is the first Input() tensor and the requested
\* output is computed from the second alone.
C8_Witness ==
    /\ model.status = "disconnected"
    /\ model.inputs = <<1>>
    /\ \E t \in Range(model.outputs) :
           /\ ~is_input(NodeOf(t))
           /\ Closure({NodeOf(t)}) \cap {<<u, 0>> : u \in InputLayers}
                  = {<<"input_b", 0>>}

\* C9: a request in which an input comes twice fails with the error for
\* redundant inputs; a request in which an output comes twice is treated as
\* the request with that output once.
C9_Redundant ==
    Requested =>
        /\ HasRepeat(model.inputs) => model.status = "redundant_inputs"
        /\ ~HasRepeat(model.inputs) => model.status # "redundant_inputs"
        /\ Len(model.outputs) = 2 /\ model.outputs[1] = model.outputs[2] =>
               LET once == map_graph_network(model.inputs, <<model.outputs[1]>>)
               IN /\ model.status = once.status
                  /\ model.layers = once.layers
                  /\ model.nodes = once.nodes

\* The first Input() tensor was requested twice, for an output that the
\* request with it once is assembled for.
C9_Witness ==
    /\ model.status = "redundant_inputs"
    /\ model.inputs = <<1, 1>>
    /\ ~is_input(NodeOf(model.outputs[1]))
    /\ map_graph_network(<<1>>, model.outputs).status = "ok"

\* C10 as stated: a graph is assembled only if every requested input feeds
\* every requested output.
C10_AsStated ==
    model.status = "ok" =>
        \A i \in Range(model.inputs) : \A o \in Range(model.outputs) :
            NodeOf(i) \in Closure({NodeOf(o)})

\* C10: a request that passed the checks for redundant inputs and cycles is
\* assembled exactly if every Input() tensor that a Node of the graph takes is
\* a requested input, and fails with the disconnected-graph error otherwise;
\* a requested input that no requested output depends on is no error: its
\* InputLayer and its Node are part of the assembled graph.
C10_Connected ==
    Requested /\ model.status \notin {"redundant_inputs", "cycle"} =>
        /\ model.status = "ok" <=> ~DependsOnUnrequested
        /\ model.status = "disconnected" <=> DependsOnUnrequested
        /\ model.status = "ok" =>
               \A i \in Range(model.inputs) :
                   /\ tensors[i].layer \in Range(model.layers)
                   /\ NodeOf(i) \in Range(model.nodes)

\* A graph was assembled for two requested inputs of which the second feeds
\* no requested output.
C10_Witness ==
    /\ model.status = "ok"
    /\ model.inputs = <<1, 2>>
    /\ \E o \in Range(model.outputs) : ~is_input(NodeOf(o))
    /\ NodeOf(2) \notin GraphNodes
    /\ "input_b" \in Range(model.layers)

-----------------------------------------------------------------------------
(* The description of a graph (get_config) and its reconstruction          *)
(* (from_config).  An edge or an input or output of the graph is named by   *)
(* <<layer name, index of the Node among the layer's Nodes in the graph,    *)
(* tensor_index>>.                                                          *)

\* kept_nodes with every Node of the layer kept.
kept_nodes_all(l) == [i \in 1..Len(inbound_nodes[l]) |-> i - 1]

\* The indices of the layer's Nodes that belong to the graph, ascending.
kept_nodes(l) ==
    SelectSeq([i \in 1..Len(inbound_nodes[l]) |-> i - 1],
              LAMBDA i : <<l, i>> \in Range(model.nodes))

\* node_conversion_map without the conversion: the index the Node has among
\* all Nodes of its layer.
node_index_unconverted(k) == k[2]

\* node_conversion_map: the index of a Node of the graph among the Nodes of
\* its layer that belong to the graph.
node_conversion_map(k) ==
    Cardinality({i \in Range(kept_nodes(k[1])) : i < k[2]})

\* The name of a tensor in the description.
tensor_data(t) ==
    <<tensors[t].layer, node_conversion_map(NodeOf(t)), tensors[t].tensor_index>>

\* Node.serialize: the names of the inputs of the Node, in order.
node_data(k) ==
    [j \in 1..Len(NodeRec(k).keras_inputs) |-> tensor_data(NodeRec(k).keras_inputs[j])]

\* The entry of a layer: its name and the Nodes it has in the graph.  An
\* InputLayer has no inbound Nodes to describe.
layer_data(l) ==
    [name |-> l,
     inbound_nodes |->
         IF l \in InputLayers THEN <<>>
         ELSE [n \in 1..Len(kept_nodes(l)) |-> node_data(<<l, kept_nodes(l)[n]>>)]]

\* Functional.get_config of the assembled graph.
get_config ==
    [layers |-> [i \in 1..Len(model.layers) |-> layer_data(model.layers[i])],
     input_layers |-> [i \in 1..Len(model.inputs) |-> tensor_data(model.inputs[i])],
     output_layers |-> [i \in 1..Len(model.outputs) |-> tensor_data(model.outputs[i])]]

\* The state of reconstruct_from_config: the Nodes and tensors of the layers
\* created so far, node_index_map, the Nodes of each layer still to be
\* processed (unprocessed_nodes) and node_count_by_layer.
RcStart ==
    [created |-> {},
     tensors |-> <<>>,
     inbound |-> [u \in AllLayers |-> <<>>],
     outbound |-> [u \in AllLayers |-> <<>>],
     weights |-> [u \in Layers |-> <<>>],
     nextVar |-> nextVar,
     node_index_map |-> <<>>,
     unprocessed_nodes |-> [u \in AllLayers |-> <<>>],
     node_count_by_layer |-> [u \in AllLayers |-> 0]]

\* process_layer: the layer is created from its entry; an InputLayer comes
\* with its Node and its tensor; the Nodes of the entry are left to process.
process_layer(rc, ld) ==
    LET l == ld.name
        t == Len(rc.tensors) + 1
    IN IF l \in InputLayers
       THEN [rc EXCEPT !.created = @ \cup {l},
                       !.tensors = Append(@, KerasHistory(l, 0, 0)),
                       !.inbound[l] = <<InputNode(t)>>]
       ELSE [rc EXCEPT !.created = @ \cup {l},
                       !.unprocessed_nodes[l] = ld.inbound_nodes]

RECURSIVE process_layers(_, _, _)
process_layers(rc, lds, i) ==
    IF i > Len(lds) THEN rc
    ELSE process_layers(process_layer(rc, lds[i]), lds, i + 1)

\* get_node_index: the index, in the layer created, of the Node that the
\* description names; -1 while that Node has not been created.
get_node_index(rc, l, i) ==
    IF l \in InputLayers THEN 0 ELSE Get(rc.node_index_map, <<l, i>>, 0 - 1)

\* Every input of the Node has been created.
inputs_created(rc, nd) ==
    \A j \in 1..Len(nd) :
        /\ nd[j][1] \in rc.created
        /\ get_node_index(rc, nd[j][1], nd[j][2]) >= 0
        /\ get_node_index(rc, nd[j][1], nd[j][2]) < Len(rc.inbound[nd[j][1]])

\* The tensor that the description names.
tensor_named(rc, e) ==
    rc.inbound[e[1]][get_node_index(rc, e[1], e[2]) + 1].outputs[e[3] + 1]

\* process_node when the inputs are created: the layer is invoked on them,
\* which builds it the first time and creates its next Node, and the Node is
\* entered in node_index_map under its index in the description.
process_node(rc, l, nd) ==
    LET ins == <<>> \o [j \in 1..Len(nd) |-> tensor_named(rc, nd[j])]
        t == Len(rc.tensors) + 1
        node_index == Len(rc.inbound[l])
        uses(p) == {j \in 1..Len(ins) : rc.tensors[ins[j]].layer = p}
        first == node_index = 0
    IN [rc EXCEPT
          !.tensors = Append(@, KerasHistory(l, node_index, 0)),
          !.inbound[l] = Append(@, [keras_inputs |-> ins, outputs |-> <<t>>]),
          !.outbound = [p \in AllLayers |->
                           @[p] \o [j \in 1..Cardinality(uses(p)) |-> <<l, node_index>>]],
          !.weights[l] = IF first
                         THEN [i \in 1..BuildWeights(l) |-> rc.nextVar + i - 1]
                         ELSE @,
          !.nextVar = IF first THEN @ + BuildWeights(l) ELSE @,
          !.node_index_map = Put(@, <<l, rc.node_count_by_layer[l]>>, node_index),
          !.node_count_by_layer[l] = @ + 1,
          !.unprocessed_nodes[l] = Tail(@)]

\* The Nodes of one layer are processed in order, up to the first whose
\* inputs are not created yet: the order of the layer's Nodes is kept.
RECURSIVE process_layer_nodes(_, _)
process_layer_nodes(rc, l) ==
    IF Len(rc.unprocessed_nodes[l]) = 0 THEN rc
    ELSE IF ~inputs_created(rc, Head(rc.unprocessed_nodes[l])) THEN rc
    ELSE process_layer_nodes(process_node(rc, l, Head(rc.unprocessed_nodes[l])), l)

\* One pass over the layers in the order of the description.
RECURSIVE process_pass(_, _, _)
process_pass(rc, lds, i) ==
    IF i > Len(lds) THEN rc
    ELSE process_pass(process_layer_nodes(rc, lds[i].name), lds, i + 1)

\* while unprocessed_nodes: passes are made until no Node is left.  A pass
\* that processes nothing is the end here: no later pass would.
RECURSIVE process_nodes(_, _)
process_nodes(rc, lds) ==
    LET pass == process_pass(rc, lds, 1)
    IN IF \A u \in AllLayers : Len(rc.unprocessed_nodes[u]) = 0 THEN rc
       ELSE IF Len(pass.tensors) = Len(rc.tensors) THEN rc
       ELSE process_nodes(pass, lds)

\* reconstruct_from_config up to the lookup of the inputs and outputs.
reconstruct_from_config(cfg) ==
    process_nodes(process_layers(RcStart, cfg.layers, 1), cfg.layers)

\* model.get_config() of an assembled graph.
GetConfig ==
    /\ ~in_call
    /\ model.status = "ok"
    /\ config.status = "none"
    /\ config' = [status |-> "saved",
                  layers |-> get_config.layers,
                  input_layers |-> get_config.input_layers,
                  output_layers |-> get_config.output_layers]
    /\ UNCHANGED <<learning_phase, stack, called, built, buildCount, weights,
                   nextVar, tensors, inbound_nodes, outbound_nodes, ncalls,
                   firstWeights, model, rest>>

\* reconstruct_from_config(config), the first half of from_config: new
\* layers are created under the names of the description and invoked as it
\* tells; they and their tensors take the place of the old ones.  What is
\* left of from_config is the constructor, on the tensors that the
\* description names as inputs and outputs.
ReconstructFromConfig ==
    /\ ~in_call
    /\ config.status = "saved"
    /\ \E rc \in {reconstruct_from_config(config)} :
       LET complete ==
               /\ \A u \in AllLayers : Len(rc.unprocessed_nodes[u]) = 0
               /\ inputs_created(rc, config.input_layers)
               /\ inputs_created(rc, config.output_layers)
       IN /\ tensors' = rc.tensors
          /\ inbound_nodes' = rc.inbound
          /\ outbound_nodes' = rc.outbound
          /\ weights' = rc.weights
          /\ firstWeights' = rc.weights
          /\ nextVar' = rc.nextVar
          /\ called' = [u \in Layers |-> Len(rc.inbound[u]) > 0]
          /\ built' = [u \in Layers |-> Len(rc.inbound[u]) > 0]
          /\ buildCount' = [u \in Layers |-> IF Len(rc.inbound[u]) > 0 THEN 1 ELSE 0]
          /\ ncalls' = ncalls + Len(rc.tensors) - Cardinality(rc.created \cap InputLayers)
          /\ model' =
                 IF complete
                 THEN [NoModel EXCEPT
                         !.status = "reconstructed",
                         !.inputs = <<>> \o
                             [i \in 1..Len(config.input_layers) |->
                                 tensor_named(rc, config.input_layers[i])],
                         !.outputs = <<>> \o
                             [i \in 1..Len(config.output_layers) |->
                                 tensor_named(rc, config.output_layers[i])]]
                 ELSE Failed("config", <<>>, <<>>, 0)
    /\ config' = [config EXCEPT
                     !.status = IF model'.status = "reconstructed"
                                THEN "reconstructed" ELSE "loaded"]
    /\ UNCHANGED <<learning_phase, stack, rest>>

\* cls(inputs=input_tensors, outputs=output_tensors), the second half of
\* from_config.
FromConfig ==
    /\ ~in_call
    /\ model.status = "reconstructed"
    /\ model' = map_graph_network(model.inputs, model.outputs)
    /\ config' = [config EXCEPT !.status = "loaded"]
    /\ UNCHANGED <<learning_phase, stack, called, built, buildCount, weights,
                   nextVar, tensors, inbound_nodes, outbound_nodes, ncalls,
                   firstWeights, rest>>

\* The requests whose graphs are described: one or both Input() tensors for
\* the newest tensor, alone or with another tensor before or after it.
CfgInputs == {<<1>>, <<1, 2>>}

CfgOutputs ==
    {<<t, Len(tensors)>> : t \in Tensors} \cup {<<Len(tensors), t>> : t \in Tensors}
    \cup {<<Len(tensors)>>}

\* Graphs are built, assembled, described and reconstructed.
NextCfg ==
    \/ \E u \in Layers : \E ca \in AsmCallArgs(u) : SymbolicCall(u, ca)
    \/ \E ins \in CfgInputs : \E outs \in CfgOutputs : Assemble(ins, outs)
    \/ GetConfig
    \/ ReconstructFromConfig
    \/ FromConfig

SpecCfg == Init /\ [][NextCfg]_vars

\* C11: when a graph has been reconstructed from the description of an
\* assembled graph, it is assembled without error, its layers are, in order,
\* the layers of the description, and its own description is the
\* description it was reconstructed from: the same inputs and outputs and,
\* for every layer, the same Nodes with the same inputs in the same order.
C11_RoundTrip ==
    config.status = "loaded" =>
        /\ model.status = "ok"
        /\ model.layers = [i \in 1..Len(config.layers) |-> config.layers[i].name]
        /\ get_config.input_layers = config.input_layers
        /\ get_config.output_layers = config.output_layers
        /\ get_config.layers = config.layers

\* A graph was reconstructed in which a layer has two Nodes and comes in the
\* description before a layer that feeds the second of them: that Node had
\* to wait for a later pass.
C11_Witness ==
    /\ config.status = "loaded"
    /\ model.status = "ok"
    /\ \E i \in 1..Len(config.layers) : \E j \in 1..Len(config.layers) :
           /\ i < j
           /\ Len(config.layers[i].inbound_nodes) = 2
           /\ \E e \in Range(config.layers[i].inbound_nodes[2]) :
                  e[1] = config.layers[j].name

-----------------------------------------------------------------------------
(* Invocation of an assembled graph on KerasTensors                        *)

\* _infer_output_signature returning the graph's own output tensors.
infer_output_signature_own_outputs == model.outputs

\* The outputs of _infer_output_signature: `call` runs on placeholders in a
\* scratch graph and keras_tensor_from_tensor makes a KerasTensor of each
\* output, so every output is a new object.
infer_output_signature == [i \in 1..Len(model.outputs) |-> 0]

\* The invocations of layers that Functional.call makes on the placeholders:
\* one for each Node of the graph but those of the Input() tensors.
internal_calls ==
    Cardinality({i \in 1..Len(model.nodes) : ~is_input(model.nodes[i])})

\* The tensors an assembled graph is invoked on, as many as it has inputs:
\* an Input() tensor or the newest tensor, and the newest tensor.
ModelCallInputs ==
    {[i \in 1..Len(model.inputs) |-> IF i = 1 THEN t ELSE Len(tensors)] :
        t \in {1, 2, Len(tensors)}}

\* Layer.__call__ of the assembled graph on KerasTensors from the top level,
\* from entry to return.  The graph was built by its constructor and its
\* layers when their Nodes were made, so nothing is built; the layers run on
\* placeholders, which takes none of them through
\* _functional_construction_call, and the one Node made is the graph's own.
CallModel(ins) ==
    /\ ~in_call
    /\ model.status = "ok"
    /\ Len(inbound_nodes[GraphLayer]) < MaxModelCalls
    /\ in_functional_construction_mode(ins, <<>>, <<>>)
    /\ \A i \in 1..Len(model.layers) :
           model.layers[i] \in Layers => built[model.layers[i]]
    /\ ncalls' = ncalls + 1 + internal_calls
    /\ set_connectivity_metadata(GraphLayer, ins, infer_output_signature)
    /\ model_calls' = Append(model_calls, ins)
    /\ UNCHANGED <<learning_phase, stack, called, built, buildCount, weights,
                   nextVar, firstWeights, model, config, after_calls>>

CallInputs == {<<1>>, <<1, 2>>}

CallOutputs ==
    {<<t>> : t \in Tensors} \cup {<<t, Len(tensors)>> : t \in Tensors}

\* Graphs are built by invocations on KerasTensors, assembled, and invoked
\* on KerasTensors.
NextCall ==
    \/ \E u \in Layers : \E ca \in AsmCallArgs(u) :
           NodesCreated < MaxCallNodes /\ SymbolicCall(u, ca)
    \/ \E ins \in CallInputs : \E outs \in CallOutputs : Assemble(ins, outs)
    \/ \E ins \in ModelCallInputs : CallModel(ins)

SpecCall == Init /\ [][NextCall]_vars

-----------------------------------------------------------------------------
(* Properties of the invocation of an assembled graph.                     *)

\* The tensors the Nodes of the graph produce.
GraphTensors == {t \in Tensors : NodeOf(t) \in GraphNodes}

\* The graph has been invoked on tensors none of which is its own.
BrandNew(ins) == Range(ins) \cap (GraphTensors \cup Range(model.inputs)) = {}

C12_Step ==
    (Len(model_calls') > Len(model_calls) /\ BrandNew(model_calls'[Len(model_calls')]))
    => LET ins == model_calls'[Len(model_calls')]
           node_index == Len(inbound_nodes[GraphLayer])
           node == inbound_nodes'[GraphLayer][node_index + 1]
       IN /\ model' = model
          /\ called' = called /\ built' = built /\ weights' = weights
          /\ inbound_nodes' = [inbound_nodes EXCEPT ![GraphLayer] = Append(@, node)]
          /\ \A u \in AllLayers :
                 /\ SubSeq(outbound_nodes'[u], 1, Len(outbound_nodes[u])) = outbound_nodes[u]
                 /\ \A j \in (Len(outbound_nodes[u]) + 1)..Len(outbound_nodes'[u]) :
                        outbound_nodes'[u][j] = <<GraphLayer, node_index>>
                 /\ (Len(outbound_nodes'[u]) > Len(outbound_nodes[u]))
                        <=> (\E j \in 1..Len(ins) : tensors[ins[j]].layer = u)
          /\ \A t \in 1..Len(tensors) : tensors'[t] = tensors[t]
          /\ Len(tensors') = Len(tensors) + Len(model.outputs)
          /\ node.keras_inputs = ins
          /\ Len(node.outputs) = Len(model.outputs)
          /\ \A s \in 1..Len(node.outputs) :
                 /\ node.outputs[s] > Len(tensors)
                 /\ tensors'[node.outputs[s]] = KerasHistory(GraphLayer, node_index, s - 1)

-----------------------------------------------------------------------------
(* Shapes.  A shape is the size of its one free dimension.                 *)

\* The shape of the output of `call`, given the shapes of its inputs:
\*   outer: concatenates its two inputs along the dimension
\*   mid:   leaves the shape alone
\*   inner: pads the dimension by one
call_shape(u, input_shapes) ==
    CASE u = "outer" -> input_shapes[1] + input_shapes[2]
      [] u = "mid" -> input_shapes[1]
      [] OTHER -> input_shapes[1] + 1

\* Layer.compute_output_shape: the layer is invoked on placeholders of the
\* given shapes and the shapes of the outputs are read.
compute_output_shape(u, input_shape) == call_shape(u, input_shape)

\* Functional._run_internal_graph on inputs of the given shapes: tensor_dict
\* as a function from tensors to the shapes of their values.
RECURSIVE run_nodes(_, _)
run_nodes(i, tensor_dict) ==
    IF i > Len(model.nodes) THEN tensor_dict
    ELSE LET k == model.nodes[i]
             node == NodeRec(k)
             args == [j \in 1..Len(node.keras_inputs) |->
                         tensor_dict[node.keras_inputs[j]]]
         IN IF is_input(k) THEN run_nodes(i + 1, tensor_dict)
            ELSE run_nodes(i + 1,
                     Put(tensor_dict, node.outputs[1], call_shape(k[1], args)))

\* The shapes of the outputs, or the error raised for an output that was
\* not computed.
Shapes(computed, keys) ==
    IF \E i \in 1..Len(keys) : keys[i] \notin DOMAIN computed
    THEN [error |-> TRUE, shapes |-> <<>>]
    ELSE [error |-> FALSE, shapes |-> [i \in 1..Len(keys) |-> computed[keys[i]]]]

run_internal_graph(input_shape) ==
    Shapes(run_nodes(1, [t \in Range(model.inputs) |->
                            input_shape[IndexOf(model.inputs, t)]]),
           model.outputs)

\* The key of the cache: one shape for all input shapes of the same length.
cache_key_by_length(input_shape) == [i \in 1..Len(input_shape) |-> 0]

\* The key of the cache: the tuple of the input shapes.
cache_key(input_shape) == input_shape

\* layers_to_output_shapes is keyed by layer name, node index and tensor
\* index.
shape_key(t) == <<tensors[t].layer, tensors[t].node_index, tensors[t].tensor_index>>

RECURSIVE propagate_shapes(_, _)
propagate_shapes(i, layers_to_output_shapes) ==
    IF i > Len(model.nodes) THEN layers_to_output_shapes
    ELSE LET k == model.nodes[i]
             node == NodeRec(k)
             layer_input_shapes ==
                 [j \in 1..Len(node.keras_inputs) |->
                     layers_to_output_shapes[shape_key(node.keras_inputs[j])]]
         IN IF is_input(k) THEN propagate_shapes(i + 1, layers_to_output_shapes)
            ELSE propagate_shapes(i + 1,
                     Put(layers_to_output_shapes, <<k[1], k[2], 0>>,
                         compute_output_shape(k[1], layer_input_shapes)))

\* Functional.compute_output_shape on a miss of the cache.
propagate(input_shape) ==
    Shapes(propagate_shapes(1,
               [key \in {shape_key(t) : t \in Range(model.inputs)} |->
                   input_shape[CHOOSE i \in 1..Len(model.inputs) :
                                   shape_key(model.inputs[i]) = key]]),
           [i \in 1..Len(model.outputs) |-> shape_key(model.outputs[i])])

\* The input shapes asked for: one shape per input of the graph, every
\* input but the first one size larger than the first.
ShapeQueries ==
    {[i \in 1..Len(model.inputs) |-> IF i = 1 THEN s ELSE s + 1] : s \in 1..MaxShape}

\* model.compute_output_shape(input_shape).  On a miss every layer of the
\* graph computes its output shape, which invokes it on placeholders.  No
\* query is made after one that raised.
ComputeOutputShape(input_shape) ==
    /\ ~in_call
    /\ model.status = "ok"
    /\ ~shape_query.result.error
    /\ LET key == cache_key(input_shape)
           hit == key \in DOMAIN output_shape_cache
           result == IF hit THEN output_shape_cache[key] ELSE propagate(input_shape)
       IN /\ shape_query' = [status |-> "done", input_shape |-> input_shape,
                             result |-> result]
          /\ output_shape_cache' =
                 IF hit \/ result.error THEN output_shape_cache
                 ELSE Put(output_shape_cache, key, result)
          /\ ncalls' = IF hit THEN ncalls ELSE ncalls + internal_calls
    /\ UNCHANGED <<learning_phase, stack, called, built, buildCount, weights,
                   nextVar, tensors, inbound_nodes, outbound_nodes, firstWeights,
                   model, config, model_calls, after_shapes>>

\* Graphs are built, assembled and asked for their output shapes.
NextShape ==
    \/ \E u \in Layers : \E ca \in AsmCallArgs(u) :
           NodesCreated < MaxCallNodes /\ SymbolicCall(u, ca)
    \/ \E ins \in CallInputs : \E outs \in CallOutputs : Assemble(ins, outs)
    \/ \E input_shape \in ShapeQueries : ComputeOutputShape(input_shape)

SpecShape == Init /\ [][NextShape]_vars

\* C13: the shapes compute_output_shape returns for an assembled graph are
\* the shapes of the outputs of the graph run on inputs of the given
\* shapes, at the first query and at every later one, whatever was asked
\* before; it raises where the run of the graph raises.
C13_OutputShape ==
    /\ shape_query.status = "done" =>
           shape_query.result = run_internal_graph(shape_query.input_shape)
    /\ \A key \in DOMAIN output_shape_cache :
           output_shape_cache[key] = run_internal_graph(key)

\* A graph of two inputs and two outputs, one of them made of both inputs,
\* was asked for its output shapes twice with different input shapes.
C13_Witness ==
    /\ model.status = "ok"
    /\ Len(model.inputs) = 2 /\ Len(model.outputs) = 2
    /\ \E i \in 1..2 : tensors[model.outputs[i]].layer = "outer"
    /\ model.outputs[1] # model.outputs[2]
    /\ Cardinality(DOMAIN output_shape_cache) = 2
    /\ shape_query.status = "done"
    /\ ~shape_query.result.error
    /\ shape_query.result.shapes[1] # shape_query.result.shapes[2]

-----------------------------------------------------------------------------
(* Attribute tracking: Layer.__setattr__, __delattr__, add_weight and the  *)
(* weight lists                                                            *)

\* tf.Variable.trainable, fixed when the variable is created.
variable_trainable(p) == p \in TrainableParams

\* The list without the object (`[w for w in l if w is not existing_value]`).
Without(seq, o) == SelectSeq(seq, LAMBDA w : w # o)

\* list.insert(position, val), position counted from 0; a position beyond
\* the end of the list appends.
Insert(seq, position, val) ==
    IF position >= Len(seq) THEN Append(seq, val)
    ELSE SubSeq(seq, 1, position) \o <<val>> \o SubSeq(seq, position + 1, Len(seq))

\* What __setattr__ and __delattr__ read and write of one layer.
Tracked(u) ==
    [counts |-> _obj_reference_counts[u],
     trackables |-> _self_tracked_trackables[u],
     trainable_weights |-> _trainable_weights[u],
     non_trainable_weights |-> _non_trainable_weights[u]]

\* __delattr__ that untracks the object whatever else refers to it.
delattr_uncounted(st, existing_value) ==
    [counts |-> [st.counts EXCEPT ![existing_value] = 0],
     trackables |-> Without(st.trackables, existing_value),
     trainable_weights |-> Without(st.trainable_weights, existing_value),
     non_trainable_weights |-> Without(st.non_trainable_weights, existing_value)]

\* __delattr__, but for the removal of the attribute itself: an object
\* that other attributes refer to loses one reference, and the last
\* reference takes the object out of _self_tracked_trackables and of the
\* weight lists.
delattr(st, existing_value) ==
    IF st.counts[existing_value] = 0 THEN st
    ELSE IF st.counts[existing_value] > 1
    THEN [st EXCEPT !.counts[existing_value] = @ - 1]
    ELSE [counts |-> [st.counts EXCEPT ![existing_value] = 0],
          trackables |->
              IF existing_value \in Layers
              THEN Without(st.trackables, existing_value) ELSE st.trackables,
          trainable_weights |->
              IF existing_value \in AllParams
              THEN Without(st.trainable_weights, existing_value)
              ELSE st.trainable_weights,
          non_trainable_weights |->
              IF existing_value \in AllParams
              THEN Without(st.non_trainable_weights, existing_value)
              ELSE st.non_trainable_weights]

\* The position __setattr__ finds for a variable that replaces a variable:
\* the place of the old one in _trainable_weights if it is trainable; for a
\* variable that is not, the list searched is the new and empty
\* `_non_trainable_variable`.  -1 stands for None.
position_of(st, existing_value, value) ==
    IF value \in AllParams /\ existing_value \in AllParams
       /\ variable_trainable(existing_value)
       /\ existing_value \in Range(st.trainable_weights)
    THEN IndexOf(st.trainable_weights, existing_value) - 1
    ELSE 0 - 1

\* _track_variable
track_variable(st, val, position) ==
    IF variable_trainable(val)
    THEN IF val \in Range(st.trainable_weights) THEN st
         ELSE [st EXCEPT !.trainable_weights =
                  IF position < 0 THEN Append(@, val) ELSE Insert(@, position, val)]
    ELSE IF val \in Range(st.non_trainable_weights) THEN st
         ELSE [st EXCEPT !.non_trainable_weights =
                  IF position < 0 THEN Append(@, val) ELSE Insert(@, position, val)]

\* __setattr__ but for the assignment itself.
setattr(st, existing_value, value) ==
    LET counted == [st EXCEPT !.counts[value] = @ + 1]
        position == position_of(st, existing_value, value)
        cleaned == IF existing_value = Absent THEN counted
                   ELSE delattr(counted, existing_value)
        appended == IF value \in Layers /\ value \notin Range(cleaned.trackables)
                    THEN [cleaned EXCEPT !.trackables = Append(@, value)]
                    ELSE cleaned
    IN IF value \in AllParams THEN track_variable(appended, value, position)
       ELSE appended

Store(u, st) ==
    /\ _obj_reference_counts' = [_obj_reference_counts EXCEPT ![u] = st.counts]
    /\ _self_tracked_trackables' = [_self_tracked_trackables EXCEPT ![u] = st.trackables]
    /\ _trainable_weights' = [_trainable_weights EXCEPT ![u] = st.trainable_weights]
    /\ _non_trainable_weights' =
           [_non_trainable_weights EXCEPT ![u] = st.non_trainable_weights]

\* What the actions on attributes leave alone.
untracked == <<learning_phase, stack, called, built, buildCount, weights,
               nextVar, tensors, inbound_nodes, outbound_nodes, ncalls,
               firstWeights, model, config, model_calls, output_shape_cache,
               shape_query, after_tracking>>

\* layer.name = value
SetAttr(u, name, value) ==
    /\ Store(u, setattr(Tracked(u), attrs[u][name], value))
    /\ attrs' = [attrs EXCEPT ![u][name] = value]
    /\ UNCHANGED <<_trainable, untracked>>

\* del layer.name, of an attribute that exists
DelAttr(u, name) ==
    /\ attrs[u][name] # Absent
    /\ Store(u, delattr(Tracked(u), attrs[u][name]))
    /\ attrs' = [attrs EXCEPT ![u][name] = Absent]
    /\ UNCHANGED <<_trainable, untracked>>

\* A variable that no layer holds: add_weight creates such a one.
Fresh(p) ==
    \A u \in Layers :
        /\ p \notin Range(_trainable_weights[u])
        /\ p \notin Range(_non_trainable_weights[u])
        /\ \A n \in Names : attrs[u][n] # p

\* layer.add_weight(trainable=variable_trainable(p)), not assigned to an
\* attribute.
AddWeight(u, p) ==
    /\ Fresh(p)
    /\ IF variable_trainable(p)
       THEN /\ _trainable_weights' = [_trainable_weights EXCEPT ![u] = Append(@, p)]
            /\ UNCHANGED _non_trainable_weights
       ELSE /\ _non_trainable_weights' =
                   [_non_trainable_weights EXCEPT ![u] = Append(@, p)]
            /\ UNCHANGED _trainable_weights
    /\ UNCHANGED <<attrs, _obj_reference_counts, _self_tracked_trackables,
                   _trainable, untracked>>

\* _flatten_layers(recursive=False, include_self=False): the layers in
\* _self_tracked_trackables.
nested_layers(u) == SelectSeq(_self_tracked_trackables[u], LAMBDA o : o \in Layers)

\* _flatten_layers that yields the layer alone.
flatten_layers_self(u) == {u}

\* _flatten_layers(): the layer and, recursively, the layers it tracks.
RECURSIVE flatten_layers(_)
flatten_layers(u) ==
    {u} \cup UNION {flatten_layers(nested_layers(u)[i]) : i \in 1..Len(nested_layers(u))}

\* layer.trainable = value
SetTrainable(u, value) ==
    /\ _trainable' = [l \in Layers |-> IF l \in flatten_layers(u) THEN value
                                        ELSE _trainable[l]]
    /\ _trainable' # _trainable
    /\ UNCHANGED <<attrs, _obj_reference_counts, _self_tracked_trackables,
                   _trainable_weights, _non_trainable_weights, untracked>>

\* _dedup_weights: the first occurrence of each weight, in order.
dedup_weights(ws) ==
    SelectSeq([i \in 1..Len(ws) |-> IF \E j \in 1..(i - 1) : ws[j] = ws[i]
                                     THEN Absent ELSE ws[i]],
              LAMBDA w : w # Absent)

RECURSIVE Concat(_, _)
Concat(f, seq) ==
    IF seq = <<>> THEN <<>> ELSE f[Head(seq)] \o Concat(f, Tail(seq))

\* The properties trainable_weights, non_trainable_weights and weights;
\* trainable_variables, non_trainable_variables and variables are their
\* aliases.
RECURSIVE trainable_weights(_)
RECURSIVE non_trainable_weights(_)

gather_children_attribute(u, attribute) ==
    Concat([l \in Layers |->
               CASE attribute = "trainable_variables" -> trainable_weights(l)
                 [] attribute = "non_trainable_variables" -> non_trainable_weights(l)
                 [] OTHER -> trainable_weights(l) \o non_trainable_weights(l)],
           nested_layers(u))

trainable_weights(u) ==
    IF _trainable[u]
    THEN dedup_weights(_trainable_weights[u]
                       \o gather_children_attribute(u, "trainable_variables"))
    ELSE <<>>

non_trainable_weights(u) ==
    IF _trainable[u]
    THEN dedup_weights(_non_trainable_weights[u]
                       \o gather_children_attribute(u, "non_trainable_variables"))
    ELSE dedup_weights(_trainable_weights[u] \o _non_trainable_weights[u]
                       \o gather_children_attribute(u, "variables"))

layer_weights(u) == trainable_weights(u) \o non_trainable_weights(u)

\* The objects a layer may be given: variables, and for `outer` the other
\* two layers.
AttrValues(u) == Params \cup SubLayers(u)

\* Attributes are assigned and deleted, weights added and layers frozen
\* and unfrozen, in any order.
NextTrack ==
    \/ \E u \in Layers : \E n \in Names : \E o \in AttrValues(u) : SetAttr(u, n, o)
    \/ \E u \in Layers : \E n \in Names : DelAttr(u, n)
    \/ \E u \in Layers : \E p \in Params : AddWeight(u, p)
    \/ \E u \in Layers : \E value \in BOOLEAN : SetTrainable(u, value)

SpecTrack == Init /\ [][NextTrack]_vars

\* The variables a layer holds, itself or through a layer it tracks.
Reachable(u) ==
    UNION {Range(_trainable_weights[l]) \cup Range(_non_trainable_weights[l]) :
              l \in flatten_layers(u)}

\* C14, as stated: every variable reachable from a layer is in exactly one
\* of the layer's trainable_weights and non_trainable_weights, and once.
C14_AsStated ==
    \A u \in Layers :
        /\ ~HasRepeat(trainable_weights(u))
        /\ ~HasRepeat(non_trainable_weights(u))
        /\ Range(trainable_weights(u)) \cap Range(non_trainable_weights(u)) = {}
        /\ Range(trainable_weights(u)) \cup Range(non_trainable_weights(u))
               = Reachable(u)

\* The attribute names of the layer that refer to the object.
Refs(u, o) == {n \in Names : attrs[u][n] = o}

\* The layer tracks the object: a layer in _self_tracked_trackables, a
\* variable in one of the weight lists.
IsTracked(u, o) ==
    IF o \in Layers THEN o \in Range(_self_tracked_trackables[u])
    ELSE o \in Range(_trainable_weights[u]) \cup Range(_non_trainable_weights[u])

\* An object that attributes refer to is tracked and counted once per
\* attribute; a layer that no attribute refers to is not tracked.
C15_Counted ==
    \A u \in Layers : \A o \in Params \cup Layers :
        /\ _obj_reference_counts[u][o] = Cardinality(Refs(u, o))
        /\ Refs(u, o) # {} => IsTracked(u, o)
        /\ (o \in Layers /\ Refs(u, o) = {}) => ~IsTracked(u, o)
        /\ ~HasRepeat(_self_tracked_trackables[u])
        /\ ~HasRepeat(_trainable_weights[u] \o _non_trainable_weights[u])

\* An object stops being tracked in the step that takes its last reference
\* away, and in no other.
C15_Step ==
    \A u \in Layers : \A o \in Params \cup Layers :
        /\ (Refs(u, o) # {} /\ Refs(u, o)' = {}) => ~IsTracked(u, o)'
        /\ (IsTracked(u, o) /\ ~IsTracked(u, o)')
               => (Refs(u, o) # {} /\ Refs(u, o)' = {})

\* C15: an object assigned to attributes of a layer is tracked as long as
\* one attribute refers to it, through every assignment and deletion, and
\* is taken out of _self_tracked_trackables or of the weight lists by the
\* deletion or reassignment of the last attribute that refers to it.
C15_Tracking == [](C15_Counted) /\ [][C15_Step]_vars

\* `outer` holds `mid` under two names and a variable under none of its
\* own, and `mid` holds one variable under one name after another was
\* assigned to `inner` under both.
C15_Witness ==
    /\ attrs["outer"] = [a |-> "mid", b |-> "mid"]
    /\ _obj_reference_counts["outer"]["mid"] = 2
    /\ _self_tracked_trackables["outer"] = <<"mid">>
    /\ attrs["mid"] = [a |-> Absent, b |-> "kernel"]
    /\ _trainable_weights["mid"] = <<"kernel">>
    /\ attrs["inner"] = [a |-> "moving_mean", b |-> "moving_mean"]
    /\ _obj_reference_counts["inner"]["moving_mean"] = 2
    /\ _non_trainable_weights["inner"] = <<"moving_mean">>

-----------------------------------------------------------------------------
(* add_metric from several threads                                         *)

Threads == 1..MaxThreads

MetricNames == {"accuracy", "mean_activation"}

\* A lock that every thread finds free.
lock_is_free_always(lock) == TRUE

\* threading.Lock: acquire waits until no thread holds it.
lock_is_free(lock) == lock = 0

\* [m for m in self._metrics if m.name == name]
matching(name) == SelectSeq(_metrics, LAMBDA m : m.name = name)

\* The calls of add_metric that threads 1..n have made.
RECURSIVE CallsMade(_)
CallsMade(n) == IF n = 0 THEN 0 ELSE metric_threads[n].calls + CallsMade(n - 1)

MetricCallsMade == CallsMade(MaxThreads)

\* What add_metric on threads leaves alone.
unmeasured == <<learning_phase, stack, called, built, buildCount, weights,
                nextVar, tensors, inbound_nodes, outbound_nodes, ncalls,
                firstWeights, model, config, model_calls, output_shape_cache,
                shape_query, tracking, after_metrics>>

\* add_metric(value, name=name) in `call`, up to `with self._metrics_lock`:
\* the lock is acquired.
AddMetricAcquire(t, name) ==
    /\ metric_threads[t].pc = "idle"
    /\ MetricCallsMade < MaxMetricCalls
    /\ lock_is_free(_metrics_lock)
    /\ _metrics_lock' = t
    /\ metric_threads' = [metric_threads EXCEPT ![t] =
           [pc |-> "lookup", name |-> name, metric_obj |-> 0, calls |-> @.calls + 1]]
    /\ UNCHANGED <<_metrics, metric_errors, unmeasured>>

\* match = self._get_existing_metric(name): the metric of that name, none,
\* or ValueError for more than one, which leaves the `with` block.
AddMetricLookup(t) ==
    /\ metric_threads[t].pc = "lookup"
    /\ LET match == matching(metric_threads[t].name)
       IN IF Len(match) > 1
          THEN /\ metric_errors' = metric_errors + 1
               /\ _metrics_lock' = 0
               /\ metric_threads' = [metric_threads EXCEPT ![t].pc = "idle"]
          ELSE /\ metric_threads' = [metric_threads EXCEPT
                      ![t].pc = IF Len(match) = 1 THEN "release" ELSE "create",
                      ![t].metric_obj = IF Len(match) = 1 THEN match[1].id ELSE 0]
               /\ UNCHANGED <<_metrics_lock, metric_errors>>
    /\ UNCHANGED <<_metrics, unmeasured>>

\* metric_obj = metrics_mod.Mean(name=name); self._metrics.append(metric_obj)
AddMetricCreate(t) ==
    /\ metric_threads[t].pc = "create"
    /\ _metrics' = Append(_metrics, [name |-> metric_threads[t].name,
                                     id |-> Len(_metrics) + 1])
    /\ metric_threads' = [metric_threads EXCEPT ![t].pc = "release",
                                                ![t].metric_obj = Len(_metrics) + 1]
    /\ UNCHANGED <<_metrics_lock, metric_errors, unmeasured>>

\* The end of the `with` block.
AddMetricRelease(t) ==
    /\ metric_threads[t].pc = "release"
    /\ _metrics_lock' = 0
    /\ metric_threads' = [metric_threads EXCEPT ![t].pc = "update"]
    /\ UNCHANGED <<_metrics, metric_errors, unmeasured>>

\* metric_obj(value), outside the lock, and the return.
AddMetricUpdate(t) ==
    /\ metric_threads[t].pc = "update"
    /\ metric_threads' = [metric_threads EXCEPT ![t].pc = "idle"]
    /\ UNCHANGED <<_metrics, _metrics_lock, metric_errors, unmeasured>>

NextMetric ==
    \/ \E t \in Threads : \E name \in MetricNames : AddMetricAcquire(t, name)
    \/ \E t \in Threads : AddMetricLookup(t)
    \/ \E t \in Threads : AddMetricCreate(t)
    \/ \E t \in Threads : AddMetricRelease(t)
    \/ \E t \in Threads : AddMetricUpdate(t)

SpecMetric == Init /\ [][NextMetric]_vars

\* C16: whatever the interleaving of the add_metric calls of the threads,
\* the registry holds at most one metric of each name, the one every call
\* made with that name found or created, and no lookup finds two.
C16_OneMetric ==
    /\ metric_errors = 0
    /\ \A name \in MetricNames : Len(matching(name)) <= 1
    /\ \A t \in Threads :
           metric_threads[t].pc \in {"release", "update"}
           => /\ Len(matching(metric_threads[t].name)) = 1
              /\ matching(metric_threads[t].name)[1].id = metric_threads[t].metric_obj
    /\ \A t \in Threads :
           (metric_threads[t].pc = "idle" /\ metric_threads[t].calls > 0)
           => Len(matching(metric_threads[t].name)) = 1

\* Both threads are in add_metric with the same name: one has made the
\* metric and updates it outside the lock, the other holds the lock.
C16_Witness ==
    /\ metric_threads[1].pc = "update"
    /\ metric_threads[2].pc = "release"
    /\ metric_threads[1].name = metric_threads[2].name
    /\ metric_threads[1].metric_obj = metric_threads[2].metric_obj
    /\ Len(_metrics) = 1

-----------------------------------------------------------------------------
(* The first invocations of a layer from several threads                   *)

\* self.build(input_shapes): the weights are created.
build(u) ==
    /\ buildCount' = [buildCount EXCEPT ![u] = @ + 1]
    /\ weights' = [weights EXCEPT ![u] = @ \o NewWeights(u)]
    /\ nextVar' = nextVar + BuildWeights(u)
    /\ firstWeights' =
           IF buildCount[u] = 0
           THEN [firstWeights EXCEPT ![u] = weights[u] \o NewWeights(u)]
           ELSE firstWeights

\* What the invocations on threads leave alone.
unraced == <<learning_phase, stack, tensors, inbound_nodes, outbound_nodes,
             model, config, model_calls, output_shape_cache, shape_query,
             tracking, metric_vars, raised, outcome_vars, after_outcome>>

At(t, pc) == build_threads[t].pc = pc

Goto(t, pc) == build_threads' = [build_threads EXCEPT ![t].pc = pc]

\* Layer.__call__ on concrete inputs, up to the test of `built`.
ThreadCall(t, u) ==
    /\ At(t, "idle")
    /\ ncalls < MaxCalls
    /\ ncalls' = ncalls + 1
    /\ called' = [called EXCEPT ![u] = TRUE]
    /\ build_threads' = [build_threads EXCEPT ![t] = [pc |-> "call_built", layer |-> u]]
    /\ UNCHANGED <<built, buildCount, weights, nextVar, firstWeights, unraced>>

\* `if not self.built:` in __call__
ThreadTestBuilt(t) ==
    /\ At(t, "call_built")
    /\ Goto(t, IF built[build_threads[t].layer] THEN "call" ELSE "maybe_build")
    /\ UNCHANGED <<called, built, buildCount, weights, nextVar, firstWeights,
                   ncalls, unraced>>

\* `if not self.built:` in _maybe_build
ThreadMaybeBuild(t) ==
    /\ At(t, "maybe_build")
    /\ Goto(t, IF built[build_threads[t].layer] THEN "call" ELSE "build")
    /\ UNCHANGED <<called, built, buildCount, weights, nextVar, firstWeights,
                   ncalls, unraced>>

\* self.build(input_shapes)
ThreadBuild(t) ==
    /\ At(t, "build")
    /\ build(build_threads[t].layer)
    /\ Goto(t, "set_built")
    /\ UNCHANGED <<called, built, ncalls, unraced>>

\* Layer.build(self, input_shapes): self.built = True
ThreadSetBuilt(t) ==
    /\ At(t, "set_built")
    /\ built' = [built EXCEPT ![build_threads[t].layer] = TRUE]
    /\ Goto(t, "call")
    /\ UNCHANGED <<called, buildCount, weights, nextVar, firstWeights, ncalls,
                   unraced>>

\* `call` and the return of the invocation.
ThreadReturn(t) ==
    /\ At(t, "call")
    /\ build_threads' = [build_threads EXCEPT ![t] = [pc |-> "idle", layer |-> None]]
    /\ UNCHANGED <<called, built, buildCount, weights, nextVar, firstWeights,
                   ncalls, unraced>>

NextRace ==
    \/ \E t \in Threads : \E u \in Layers : ThreadCall(t, u)
    \/ \E t \in Threads : ThreadTestBuilt(t)
    \/ \E t \in Threads : ThreadMaybeBuild(t)
    \/ \E t \in Threads : ThreadBuild(t)
    \/ \E t \in Threads : ThreadSetBuilt(t)
    \/ \E t \in Threads : ThreadReturn(t)

SpecRace == Init /\ [][NextRace]_vars

\* C17, as stated: when threads invoke a layer that is not built, build
\* runs once and no weight is created twice.
C17_AsStated ==
    \A u \in Layers :
        /\ buildCount[u] <= 1
        /\ Len(weights[u]) <= BuildWeights(u)

-----------------------------------------------------------------------------
(* A `call` that raises after the layer was built                          *)

\* A raise that would take the layer back to the state before its build.
CallRaisesRecorded_unbuilds ==
    /\ in_call
    /\ stack' = Pop
    /\ raised' = [raised EXCEPT ![Top.layer] = TRUE]
    /\ ended' = End
    /\ built' = [built EXCEPT ![Top.layer] = FALSE]
    /\ UNCHANGED <<learning_phase, called, buildCount, weights, nextVar,
                   tensors, inbound_nodes, outbound_nodes, ncalls, firstWeights,
                   model, config, model_calls, output_shape_cache, shape_query,
                   tracking, metric_vars, build_threads, outcome_vars,
                   loss_vars, replay_vars, load_vars, trainable_log,
                   thread_loss_vars, cast, build_vars, register_vars,
                   connectivity, store_vars, scope_vars>>

\* `call` raised: the exception leaves __call__, which has no handler that
\* touches the layer; that it happened is remembered.
CallRaisesRecorded ==
    /\ in_call
    /\ stack' = Pop
    /\ raised' = [raised EXCEPT ![Top.layer] = TRUE]
    /\ ended' = End
    /\ UNCHANGED <<learning_phase, called, built, buildCount, weights, nextVar,
                   tensors, inbound_nodes, outbound_nodes, ncalls, firstWeights,
                   model, config, model_calls, output_shape_cache, shape_query,
                   tracking, metric_vars, build_threads, outcome_vars,
                   loss_vars, replay_vars, load_vars, trainable_log,
                   thread_loss_vars, cast, build_vars, register_vars,
                   connectivity, store_vars, scope_vars>>

NextRaise ==
    \/ \E u \in Layers, ca \in CtxCallArgs : Call(u, ca, NotPassed)
    \/ ReturnImmediate
    \/ ReturnFunctional
    \/ CallRaisesRecorded

SpecRaise == Init /\ [][NextRaise]_vars

C18_Built ==
    \A u \in Layers :
        raised[u] => /\ built[u]
                     /\ buildCount[u] = 1
                     /\ weights[u] = firstWeights[u]

C18_Step ==
    \A u \in Layers :
        raised[u] => /\ buildCount'[u] = buildCount[u]
                     /\ weights'[u] = weights[u]

\* C18: once the `call` of a layer has raised, in either mode, the layer is
\* built, and no later step, an invocation of the layer included, runs its
\* build again or changes its weights.
C18_BuiltAfterRaise == [](C18_Built) /\ [][C18_Step]_vars

\* A layer with weights is invoked again after its `call` raised.
C18_Witness ==
    /\ raised["inner"]
    /\ OnStack("inner")
    /\ buildCount["inner"] = 1
    /\ Len(weights["inner"]) = BuildWeights("inner")

-----------------------------------------------------------------------------
(* Invocations from entry to return: what `call` returned, and masks       *)

\* What `call` returns: None, or a tensor.
CallReturns == {None, "tensor"}

\* Layer._supports_masking:
\*   outer: its constructor sets supports_masking = True and it keeps the
\*          compute_mask of Layer
\*   mid:   it overrides compute_mask
\*   inner: neither
supports_masking(u) == u \in {"outer", "mid"}

\* No `call` of the three layers has a `mask` argument.
expects_mask_arg(u) == FALSE

\* Layer._get_input_masks, no `mask` being passed: whether a mask is read
\* from the inputs (FALSE stands for None).
get_input_masks(u, input_mask) ==
    IF ~supports_masking(u) /\ ~expects_mask_arg(u)
    THEN FALSE
    ELSE input_mask

\* compute_mask of a layer that supports masking: Layer's carries the mask
\* of the input over, the override of mid makes a mask.
compute_mask(u, mask) == IF u = "mid" THEN TRUE ELSE mask

\* Layer._set_mask_metadata: whether the output is given a mask.
set_mask_metadata(u, call_output, previous_mask) ==
    IF ~supports_masking(u)
    THEN FALSE
    ELSE IF call_output = None
         THEN FALSE
         ELSE compute_mask(u, previous_mask)

\* keras_tensor_from_tensor: the KerasTensor of an output has its mask.
keras_tensor_from_tensor(t, output_mask) ==
    IF output_mask THEN _keras_mask \cup {t} ELSE _keras_mask

Outcome(status, u, x, input_mask, call_output, output_mask) ==
    [status |-> status, layer |-> u, symbolic |-> IsKerasTensor(x),
     input_mask |-> input_mask, call_output |-> call_output,
     output_mask |-> output_mask]

\* Invoke with the Node made before the result of `call` is tested.
Invoke_node_before_check(u, x, input_mask, call_output) ==
    /\ ~in_call
    /\ model.status = "none"
    /\ ncalls < MaxCalls
    /\ IsKerasTensor(x) =>
           /\ input_mask = (x \in _keras_mask)
           /\ NodesCreated < MaxCallNodes
    /\ called' = [called EXCEPT ![u] = TRUE]
    /\ maybe_build(u)
    /\ ncalls' = ncalls + 1
    /\ LET input_masks == get_input_masks(u, input_mask)
           output_mask == set_mask_metadata(u, call_output, input_masks)
       IN IF IsKerasTensor(x)
          THEN IF call_output = None
               THEN /\ outcome' = Outcome("raised", u, x, input_mask, call_output, FALSE)
                    /\ set_connectivity_metadata(u, <<x>>, <<0>>)
                    /\ UNCHANGED <<_keras_mask, symbolic_returns>>
               ELSE /\ set_connectivity_metadata(u, <<x>>, <<0>>)
                    /\ _keras_mask' = keras_tensor_from_tensor(Len(tensors) + 1, output_mask)
                    /\ outcome' = Outcome("returned", u, x, input_mask, call_output, output_mask)
                    /\ symbolic_returns' = [symbolic_returns EXCEPT ![u] = @ + 1]
          ELSE /\ outcome' = Outcome("returned", u, x, input_mask, call_output, output_mask)
               /\ UNCHANGED <<tensors, inbound_nodes, outbound_nodes,
                              _keras_mask, symbolic_returns>>
    /\ UNCHANGED <<learning_phase, stack, model, config, model_calls,
                   output_shape_cache, shape_query, tracking, metric_vars,
                   build_threads, raised, after_outcome>>

\* Layer.__call__ from the top level on one input, from entry to return or
\* raise: on a KerasTensor through _functional_construction_call, on a
\* concrete value through the rest of __call__.
Invoke(u, x, input_mask, call_output) ==
    /\ ~in_call
    /\ model.status = "none"
    /\ ncalls < MaxCalls
    /\ IsKerasTensor(x) =>
           /\ input_mask = (x \in _keras_mask)
           /\ NodesCreated < MaxCallNodes
    /\ called' = [called EXCEPT ![u] = TRUE]
    /\ maybe_build(u)
    /\ ncalls' = ncalls + 1
    /\ LET input_masks == get_input_masks(u, input_mask)
           output_mask == set_mask_metadata(u, call_output, input_masks)
       IN IF IsKerasTensor(x)
          THEN IF call_output = None
               THEN /\ outcome' = Outcome("raised", u, x, input_mask, call_output, FALSE)
                    /\ UNCHANGED <<tensors, inbound_nodes, outbound_nodes,
                                   _keras_mask, symbolic_returns>>
               ELSE /\ set_connectivity_metadata(u, <<x>>, <<0>>)
                    /\ _keras_mask' = keras_tensor_from_tensor(Len(tensors) + 1, output_mask)
                    /\ outcome' = Outcome("returned", u, x, input_mask, call_output, output_mask)
                    /\ symbolic_returns' = [symbolic_returns EXCEPT ![u] = @ + 1]
          ELSE /\ outcome' = Outcome("returned", u, x, input_mask, call_output, output_mask)
               /\ UNCHANGED <<tensors, inbound_nodes, outbound_nodes,
                              _keras_mask, symbolic_returns>>
    /\ UNCHANGED <<learning_phase, stack, model, config, model_calls,
                   output_shape_cache, shape_query, tracking, metric_vars,
                   build_threads, raised, after_outcome>>

NextOutcome ==
    \E u \in Layers : \E x \in {0} \cup Tensors :
        \E input_mask \in BOOLEAN : \E call_output \in CallReturns :
            Invoke(u, x, input_mask, call_output)

SpecOutcome == Init /\ [][NextOutcome]_vars

\* C19, as stated: whenever the `call` of an invocation returned None, the
\* invocation raised, on KerasTensors and on concrete values alike.
C19_AsStated ==
    (outcome.status # "none" /\ outcome.call_output = None)
        => outcome.status = "raised"

\* C20, as stated: an invocation of a layer that does not support masking
\* on an input that carries a mask raised.
C20_AsStated ==
    (outcome.status # "none" /\ ~supports_masking(outcome.layer)
        /\ outcome.input_mask)
        => outcome.status = "raised"

-----------------------------------------------------------------------------
(* Invocations on inputs that the layer's input_spec rejects               *)

\* What the checked invocations leave alone.
unchecked == <<learning_phase, stack, model, config, model_calls,
               output_shape_cache, shape_query, tracking, metric_vars,
               build_threads, raised, outcome_vars, after_losses>>

\* Layer._clear_losses: the losses of the layer and of the layers it tracks.
clear_losses(u) == [l \in Layers |-> IF l \in flatten_layers(u) THEN 0 ELSE _eager_losses[l]]

\* input_spec.assert_input_compatibility raised.
UsageError == usage_errors' = usage_errors + 1

\* Layer.__call__ from the top level on a concrete value, from entry to
\* return or raise.  `compatible`: the input has the structure of the
\* layer's input_spec; `adds_loss`: `call` calls add_loss with a tensor.
InvokeEager(u, compatible, adds_loss) ==
    /\ ~in_call
    /\ model.status = "none"
    /\ ncalls < MaxCalls
    /\ ncalls' = ncalls + 1
    /\ called' = [called EXCEPT ![u] = TRUE]
    /\ IF ~compatible
       THEN /\ _eager_losses' = clear_losses(u)
            /\ UsageError
            /\ UNCHANGED <<built, buildCount, weights, nextVar, firstWeights>>
       ELSE /\ _eager_losses' =
                   [clear_losses(u) EXCEPT ![u] = IF adds_loss THEN @ + 1 ELSE @]
            /\ maybe_build(u)
            /\ UNCHANGED usage_errors
    /\ UNCHANGED <<tensors, inbound_nodes, outbound_nodes, unchecked>>

\* Layer.__call__ from the top level on a KerasTensor, from entry to return
\* or raise.  The input is checked by _maybe_build, when the layer is not
\* built; a `call` that is given an input it does not expect returns or
\* raises.
InvokeSymbolic(u, x, compatible, call_raises) ==
    /\ ~in_call
    /\ model.status = "none"
    /\ ncalls < MaxCalls
    /\ NodesCreated < MaxCallNodes
    /\ IsKerasTensor(x)
    /\ call_raises => (built[u] /\ ~compatible)
    /\ ncalls' = ncalls + 1
    /\ called' = [called EXCEPT ![u] = TRUE]
    /\ IF ~built[u] /\ ~compatible
       THEN /\ UsageError
            /\ UNCHANGED <<built, buildCount, weights, nextVar, firstWeights,
                           tensors, inbound_nodes, outbound_nodes>>
       ELSE /\ maybe_build(u)
            /\ UNCHANGED usage_errors
            /\ IF call_raises
               THEN UNCHANGED <<tensors, inbound_nodes, outbound_nodes>>
               ELSE set_connectivity_metadata(u, <<x>>, <<0>>)
    /\ UNCHANGED <<_eager_losses, unchecked>>

NextUsage ==
    \/ \E u \in Layers : \E compatible \in BOOLEAN : \E adds_loss \in BOOLEAN :
           InvokeEager(u, compatible, adds_loss)
    \/ \E u \in Layers : \E x \in Tensors :
           \E compatible \in BOOLEAN : \E call_raises \in BOOLEAN :
               InvokeSymbolic(u, x, compatible, call_raises)

SpecUsage == Init /\ [][NextUsage]_vars

C21_Step ==
    usage_errors' # usage_errors =>
        /\ built' = built
        /\ weights' = weights
        /\ _eager_losses' = _eager_losses
        /\ inbound_nodes' = inbound_nodes
        /\ outbound_nodes' = outbound_nodes

\* C21, as stated: an invocation that the check of its inputs ends leaves
\* the built flags, the weights, the accumulated losses and the Nodes of
\* every layer as they were.
C21_AsStated == [][C21_Step]_vars

-----------------------------------------------------------------------------
(* The two resolutions of the call-context arguments, side by side         *)

\* The value a nested invocation finds for the argument once a frame that
\* holds `prop` is entered above `stk`.
InContext(prop, stk, a) ==
    IF prop # None THEN prop ELSE get_call_context_arg(stk, a)

\* The two modes give the invocation of the frame the same values.
SameResolution(i) ==
    LET u == stack[i].layer
        enclosing == SubSeq(stack, 1, i - 1)
        functional == functional_call_context_arguments(u, stack[i].passed, enclosing)
        immediate == get_propagated_call_context_arguments(u, stack[i].passed, enclosing)
    IN \A a \in ContextArgs :
           /\ functional[a].seen = immediate[a].seen
           /\ InContext(functional[a].prop, enclosing, a)
                  = InContext(immediate[a].prop, enclosing, a)

\* C22, as stated: for every invocation in progress, with its argument
\* absent, None or a value, graph-construction mode and immediate mode
\* resolve the same value for `call` and the same value for the nested
\* invocations, given the same enclosing invocations and learning phase.
C22_AsStated == \A i \in Frames : SameResolution(i)

-----------------------------------------------------------------------------
(* `training` at the construction of a graph and at its execution          *)

TrainingChoices == {Absent, None, True, False}

\* The graphs that are executed: every invocation is made on the newest
\* tensor, and the graph is requested from the second Input() tensor to the
\* newest tensor.
ReplayTensors == {Len(tensors)}

ReplayInputs == {<<2>>}

ReplayOutputs == {<<Len(tensors)>>}

\* The values a graph is executed with: none, True or False.  The learning
\* phase is set before the first execution.
ReplayChoices == {Absent, True, False}

\* node_call_kwargs with the value the framework passed left in place.
node_call_kwargs_injected(u, p) ==
    IF expects_context_arg(u, "training")
    THEN FunctionalArg(u, "training", p, stack).seen
    ELSE Absent

\* What is left of `training` in the arguments that the Node is made of: a
\* value that `call` does not declare is popped, and a value that the
\* framework passed is set back to None and popped.
node_call_kwargs(u, p) ==
    IF expects_context_arg(u, "training") /\ ExplicitValue(p) # None
    THEN p
    ELSE Absent

\* Layer.__call__ on a KerasTensor from the top level, from entry to return,
\* with `training` absent, None, True or False.
TraceCall(u, x, p) ==
    /\ ~in_call
    /\ model.status = "none"
    /\ NodesCreated < MaxCallNodes
    /\ IsKerasTensor(x)
    /\ called' = [called EXCEPT ![u] = TRUE]
    /\ maybe_build(u)
    /\ ncalls' = ncalls + 1
    /\ set_connectivity_metadata(u, <<x>>, <<0>>)
    /\ call_kwargs' = [call_kwargs EXCEPT ![u] = Append(@, node_call_kwargs(u, p))]
    /\ traced' = [traced EXCEPT ![u] =
                     Append(@, [passed |-> p,
                                seen |-> FunctionalArg(u, "training", p, stack).seen])]
    /\ UNCHANGED <<learning_phase, stack, model, config, model_calls,
                   output_shape_cache, shape_query, tracking, metric_vars,
                   build_threads, raised, outcome_vars, loss_vars, replays,
                   after_replay>>

\* The frame of the graph's own invocation on concrete values.
graph_frame(training) ==
    [call_context_args |->
        [a \in ContextArgs |->
            PropagatedArgLP(GraphLayer, a,
                            IF a = "training" THEN training ELSE Absent,
                            <<>>).prop]]

\* Functional._run_internal_graph: each Node's layer is invoked with the
\* arguments of the Node, inside the invocation of the graph.
run_internal_graph_training(training) ==
    [i \in 1..Len(model.nodes) |->
        IF is_input(model.nodes[i])
        THEN Absent
        ELSE PropagatedArgLP(model.nodes[i][1], "training",
                             call_kwargs[model.nodes[i][1]][model.nodes[i][2] + 1],
                             <<graph_frame(training)>>).seen]

\* Layer.__call__ of the assembled graph on concrete values from the top
\* level, from entry to return.
ExecuteGraph(training) ==
    /\ ~in_call
    /\ model.status = "ok"
    /\ Len(replays) < MaxReplays
    /\ ncalls' = ncalls + 1 + internal_calls
    /\ replays' = Append(replays,
                      [training |-> training,
                       learning_phase |-> learning_phase,
                       observed |-> run_internal_graph_training(training)])
    /\ UNCHANGED <<learning_phase, stack, called, built, buildCount, weights,
                   nextVar, tensors, inbound_nodes, outbound_nodes,
                   firstWeights, model, config, model_calls,
                   output_shape_cache, shape_query, tracking, metric_vars,
                   build_threads, raised, outcome_vars, loss_vars,
                   call_kwargs, traced, after_replay>>

NextReplay ==
    \/ \E v \in {"unset", "1"} : replays = <<>> /\ SetLearningPhase(v)
    \/ \E u \in Layers : \E x \in ReplayTensors : \E p \in TrainingChoices :
           TraceCall(u, x, p)
    \/ \E ins \in ReplayInputs : \E outs \in ReplayOutputs : Assemble(ins, outs)
    \/ \E training \in ReplayChoices : ExecuteGraph(training)

SpecReplay == Init /\ [][NextReplay]_vars

\* The Nodes of the graph that are not Nodes of Input() tensors.
ReplayedNodes == {i \in 1..Len(model.nodes) : ~is_input(model.nodes[i])}

TracedAt(i) == traced[model.nodes[i][1]][model.nodes[i][2] + 1]

HeldAt(i) == call_kwargs[model.nodes[i][1]][model.nodes[i][2] + 1]

\* C23, as stated: a `training` value passed explicitly at construction is
\* held by the Node, and the `call` of the layer observes it in every
\* execution of the graph.
C23_AsStated ==
    /\ \A u \in Layers : \A i \in 1..Len(traced[u]) :
           HasValue(traced[u][i].passed) =>
               call_kwargs[u][i] = traced[u][i].passed
    /\ \A r \in 1..Len(replays) : \A i \in ReplayedNodes :
           HasValue(TracedAt(i).passed) =>
               replays[r].observed[i] = TracedAt(i).passed

\* What `call` observes in an execution when the Node holds no value: as
\* stated, the value the graph is executed with, else the own default.
C24_StatedValue(u, r) ==
    IF HasValue(r.training) THEN r.training
    ELSE SignatureDefault(u, "training")

\* The same with the global learning phase before the own default.
C24_Value(u, r) ==
    IF HasValue(r.training) THEN r.training
    ELSE IF r.learning_phase # "unset"
         THEN (IF r.learning_phase = "1" THEN True ELSE False)
    ELSE SignatureDefault(u, "training")

C24_AsStated ==
    \A r \in 1..Len(replays) : \A i \in ReplayedNodes :
        (expects_context_arg(model.nodes[i][1], "training")
            /\ ~HasValue(TracedAt(i).passed)) =>
                /\ HeldAt(i) = Absent
                /\ replays[r].observed[i] = C24_StatedValue(model.nodes[i][1], replays[r])

\* C24 (amended): a Node made with `training` absent or None holds no
\* value, whatever `call` was given while the graph was constructed; in an
\* execution of the graph the `call` of a layer that declares `training`
\* observes the value the graph is executed with, else the global learning
\* phase if it is set, else its own default.
C24_NotStored ==
    \A r \in 1..Len(replays) : \A i \in ReplayedNodes :
        (expects_context_arg(model.nodes[i][1], "training")
            /\ ~HasValue(TracedAt(i).passed)) =>
                /\ HeldAt(i) = Absent
                /\ replays[r].observed[i] = C24_Value(model.nodes[i][1], replays[r])

\* A layer that was given True while the graph was constructed observes
\* False in one execution and its own default True in another.
C24_Witness ==
    /\ Len(replays) = 2
    /\ replays[1].training = False
    /\ replays[2].training = Absent
    /\ replays[2].learning_phase = "unset"
    /\ \E i \in ReplayedNodes :
           /\ model.nodes[i][1] = "inner"
           /\ TracedAt(i).passed = None
           /\ TracedAt(i).seen = True
           /\ replays[1].observed[i] = False
           /\ replays[2].observed[i] = True

-----------------------------------------------------------------------------
(* set_weights and load_own_variables                                      *)

\* The values that are supplied for a variable (a variable holds 0 when it
\* is created).
Values == {1, 2}

\* The lists of values supplied; a store holds its values under the keys
\* "0", "1", ... and is modelled as the list of them.
Supplied == UNION {[1..n -> Values] : n \in 0..MaxSupplied}

\* backend.batch_set_value / v.assign in the order of the list.
batch_set_value(params, vals) ==
    [p \in Params |->
        IF \E i \in 1..Len(params) : params[i] = p
        THEN vals[CHOOSE i \in 1..Len(params) :
                      /\ params[i] = p
                      /\ \A j \in 1..Len(params) : params[j] = p => j <= i]
        ELSE param_values[p]]

Shorter(a, b) == IF Len(a) <= Len(b) THEN Len(a) ELSE Len(b)

\* set_weights that assigns as many values as it is given variables for,
\* and fails afterwards.
set_weights_uncounted(u, vals) ==
    LET params == layer_weights(u)
        n == Shorter(params, vals)
    IN [raised |-> Len(params) # Len(vals),
        expected |-> Len(params),
        values |-> batch_set_value(SubSeq(params, 1, n), SubSeq(vals, 1, n))]

\* Layer.set_weights: the values and whether it raised.
set_weights(u, vals) ==
    LET params == layer_weights(u)
    IN IF Len(params) # Len(vals)
       THEN [raised |-> TRUE, expected |-> Len(params), values |-> param_values]
       ELSE [raised |-> FALSE, expected |-> Len(params),
             values |-> batch_set_value(params, vals)]

\* _track_variables(trackable_obj): every variable of the list that is not
\* in the weight list of its kind is appended to it.
RECURSIVE track_variables(_, _)
track_variables(st, vals) ==
    IF vals = <<>> THEN st
    ELSE track_variables(track_variable(st, Head(vals), 0 - 1), Tail(vals))

\* Layer._update_trackables: the variables added to a tracked list after it
\* was assigned are tracked.
update_trackables(u) == track_variables(Tracked(u), _tracked_list[u])

\* Layer.load_own_variables: the values and whether it raised.
load_own_variables(u, st) ==
    LET updated == update_trackables(u)
        all_vars == updated.trainable_weights \o updated.non_trainable_weights
    IN IF Len(st) # Len(all_vars)
       THEN [raised |-> TRUE, expected |-> Len(all_vars), values |-> param_values]
       ELSE [raised |-> FALSE, expected |-> Len(all_vars),
             values |-> batch_set_value(all_vars, st)]

\* What a load leaves alone.
unloaded == <<learning_phase, stack, called, built, buildCount, weights,
              nextVar, tensors, inbound_nodes, outbound_nodes, ncalls,
              firstWeights, model, config, model_calls, output_shape_cache,
              shape_query, tracking, metric_vars, build_threads, raised,
              outcome_vars, loss_vars, replay_vars, after_loads>>

Loaded(op, u, vals, r) ==
    /\ param_values' = r.values
    /\ last_load' = [op |-> op, layer |-> u, supplied |-> Len(vals),
                     expected |-> r.expected, raised |-> r.raised,
                     before |-> param_values]
    /\ UNCHANGED unloaded

\* layer.set_weights(vals)
SetWeights(u, vals) ==
    \E r \in {set_weights(u, vals)} : Loaded("set_weights", u, vals, r)

\* layer.load_own_variables(store)
LoadOwnVariables(u, st) ==
    /\ \E r \in {load_own_variables(u, st)} :
           /\ param_values' = r.values
           /\ last_load' = [op |-> "load_own_variables", layer |-> u,
                            supplied |-> Len(st), expected |-> r.expected,
                            raised |-> r.raised, before |-> param_values]
    /\ Store(u, update_trackables(u))
    /\ UNCHANGED <<learning_phase, stack, called, built, buildCount, weights,
                   nextVar, tensors, inbound_nodes, outbound_nodes, ncalls,
                   firstWeights, model, config, model_calls, output_shape_cache,
                   shape_query, attrs, _trainable, metric_vars, build_threads,
                   raised, outcome_vars, loss_vars, replay_vars, after_loads>>

\* Weights are added, `mid` is made a layer of `outer`, and values are
\* loaded, in any order.
NextLoad ==
    \/ \E u \in Layers : \E p \in Params : AddWeight(u, p)
    \/ \E n \in Names : SetAttr("outer", n, "mid")
    \/ \E u \in Layers : \E vals \in Supplied : SetWeights(u, vals)
    \/ \E u \in Layers : \E st \in Supplied : LoadOwnVariables(u, st)

SpecLoad == Init /\ [][NextLoad]_vars

\* C25: a set_weights or load_own_variables that is given a number of
\* values other than the number of the layer's variables raised, and every
\* variable holds the value it held before.
C25_CountChecked ==
    (last_load.op # "none" /\ last_load.supplied # last_load.expected) =>
        /\ last_load.raised
        /\ param_values = last_load.before

\* A layer with two variables that hold loaded values was given one value.
C25_Witness ==
    /\ last_load.op = "set_weights"
    /\ last_load.expected = 2
    /\ last_load.supplied = 1
    /\ last_load.raised
    /\ \E p \in Params : param_values[p] # 0

-----------------------------------------------------------------------------
(* Freezing and unfreezing                                                 *)

\* The three weight properties of a layer.
Lists(l) ==
    [trainable_weights |-> trainable_weights(l),
     non_trainable_weights |-> non_trainable_weights(l),
     weights |-> layer_weights(l)]

\* layer.trainable = value, with the lists of every layer before and after
\* it remembered.
SetTrainableLogged(u, value) ==
    /\ Len(trainable_log) < MaxFreezes
    /\ _trainable' = [l \in Layers |-> IF l \in flatten_layers(u) THEN value
                                        ELSE _trainable[l]]
    /\ UNCHANGED <<attrs, _obj_reference_counts, _self_tracked_trackables,
                   _trainable_weights, _non_trainable_weights>>
    /\ UNCHANGED <<learning_phase, stack, called, built, buildCount, weights,
                   nextVar, tensors, inbound_nodes, outbound_nodes, ncalls,
                   firstWeights, model, config, model_calls,
                   output_shape_cache, shape_query, metric_vars,
                   build_threads, raised, outcome_vars, loss_vars,
                   replay_vars, load_vars, thread_loss_vars,
                   after_thread_losses>>
    /\ trainable_log' =
           Append(trainable_log,
                  [layer |-> u, value |-> value,
                   children |-> {attrs[u][n] : n \in Names} \cap Layers,
                   trainable_before |-> _trainable,
                   trainable_after |-> _trainable',
                   before |-> [l \in Layers |-> Lists(l)],
                   after |-> [l \in Layers |-> Lists(l)']])

\* outer.a = mid and outer.b = inner
FreezeAttrs == {<<"a", "mid">>, <<"b", "inner">>}

\* Weights are added, `mid` and `inner` are made layers of `outer`, and
\* layers are frozen and unfrozen, in any order.
NextFreeze ==
    \/ \E u \in Layers : \E p \in Params : AddWeight(u, p)
    \/ \E a \in FreezeAttrs : SetAttr("outer", a[1], a[2])
    \/ \E u \in Layers : \E value \in BOOLEAN : SetTrainableLogged(u, value)

SpecFreeze == Init /\ [][NextFreeze]_vars

Assignments == 1..Len(trainable_log)

\* The assignment is followed at once by the opposite one.
SetBack(j) ==
    /\ j + 1 \in Assignments
    /\ trainable_log[j + 1].layer = trainable_log[j].layer
    /\ ~trainable_log[j].value
    /\ trainable_log[j + 1].value
    /\ trainable_log[j + 1].before = trainable_log[j].after

\* The assignment of False set the flag of the layer and of the layers it
\* tracks, and emptied trainable_weights.
Frozen(e) ==
    /\ \A l \in {e.layer} \cup e.children : ~e.trainable_after[l]
    /\ e.after[e.layer].trainable_weights = <<>>

\* Of a layer that `outer` tracks: what the assignment of False left of the
\* trainable_weights of `outer`.
SubUnitFrozen(e) ==
    e.after["outer"].trainable_weights =
        SelectSeq(e.before["outer"].trainable_weights,
                  LAMBDA w : w \notin Range(e.before[e.layer].trainable_weights))

IsSubUnit(e) == e.layer \in Range(_self_tracked_trackables["outer"])

-----------------------------------------------------------------------------
(* The layers of an assembled graph.                                        *)

\* The Nodes of the graph: those the requested outputs depend on and those
\* of the requested inputs.
OwnedNodes == GraphNodes \cup {NodeOf(t) : t \in Range(model.inputs)}

Occurrences(seq, x) == Cardinality({i \in 1..Len(seq) : seq[i] = x})

\* C27: every layer that has Nodes in an assembled graph, a shared layer
\* included, comes exactly once in model.layers, which holds nothing else;
\* two distinct layers of the same structure are both in it.
C27_SharedOnce ==
    model.status = "ok" =>
        /\ \A k \in OwnedNodes : Occurrences(model.layers, k[1]) = 1
        /\ \A l \in Range(model.layers) : \E k \in OwnedNodes : k[1] = l

\* A graph is assembled in which a layer has two Nodes and which holds both
\* Input() layers.
C27_Witness ==
    /\ model.status = "ok"
    /\ \E k1 \in GraphNodes : \E k2 \in GraphNodes : k1 # k2 /\ k1[1] = k2[1]
    /\ InputLayers \subseteq Range(model.layers)
    /\ \A l \in InputLayers : structure(l) = "InputLayer"

-----------------------------------------------------------------------------
(* The order of the layers of an assembled graph.                           *)

\* The reverse walk and the depths of the graph that was requested, taken
\* from the records as they are now.
RequestedWalk == walk_outputs(model.outputs, 1, WalkStart)

RequestedDepths ==
    add_unconnected_inputs(model.inputs, 1,
        depth_pass(RequestedWalk.nodes_in_decreasing_depth,
                   Len(RequestedWalk.nodes_in_decreasing_depth), DepthStart))

\* Two layers of the graph with no order between them: they are on one level.
SameLevel(l1, l2) ==
    /\ l1 # l2
    /\ RequestedDepths.layers_depths[l1] = RequestedDepths.layers_depths[l2]

Discovered(l) == l \in Range(RequestedWalk.layer_indices)

-----------------------------------------------------------------------------
(* The Node indices of a description.                                       *)

\* The Nodes that the layer has in the graph.
InGraph(l) == {k \in Range(model.nodes) : k[1] = l}

\* The place of a Node among the Nodes that its layer has in the graph.
Rank(k) == Cardinality({j \in InGraph(k[1]) : j[2] < k[2]})

\* The layer was invoked outside the graph before it was invoked in it.
UsedBefore(l) == InGraph(l) # {} /\ \A k \in InGraph(l) : k[2] > 0

\* The name that an input of a Node of the graph should have.
EdgeOf(t) == <<tensors[t].layer, Rank(NodeOf(t)), tensors[t].tensor_index>>

\* The Node was reconstructed with the inputs it has in the graph.
SameWiring(rc, k) ==
    /\ Rank(k) < Len(rc.inbound[k[1]])
    /\ LET n == rc.inbound[k[1]][Rank(k) + 1]
       IN /\ Len(n.keras_inputs) = Len(NodeRec(k).keras_inputs)
          /\ \A j \in 1..Len(n.keras_inputs) :
                 LET h == rc.tensors[n.keras_inputs[j]]
                 IN <<h.layer, h.node_index, h.tensor_index>>
                        = EdgeOf(NodeRec(k).keras_inputs[j])

\* C29: in the description of a graph every Node is named by its place among
\* the Nodes that its layer has in the graph, whatever Nodes the layer has
\* outside it, so the first of them is Node 0; and the reconstruction from
\* the description gives every Node the inputs it has in the graph.
C29_InGraphIndex ==
    config.status = "saved" =>
        /\ \A i \in 1..Len(config.layers) :
               LET l == config.layers[i].name
               IN l \notin InputLayers =>
                      /\ Len(config.layers[i].inbound_nodes) = Cardinality(InGraph(l))
                      /\ \A k \in InGraph(l) :
                             config.layers[i].inbound_nodes[Rank(k) + 1] =
                                 [j \in 1..Len(NodeRec(k).keras_inputs) |->
                                     EdgeOf(NodeRec(k).keras_inputs[j])]
        /\ \A i \in 1..Len(config.output_layers) :
               config.output_layers[i] = EdgeOf(model.outputs[i])
        /\ \E rc \in {reconstruct_from_config(config)} :
               \A l \in Range(model.layers) \ InputLayers :
                   /\ Len(rc.inbound[l]) = Cardinality(InGraph(l))
                   /\ \A k \in InGraph(l) : SameWiring(rc, k)

\* A graph is described in which a layer that was invoked before, outside
\* the graph, feeds another layer: the edge names its Node 0.
C29_Witness ==
    /\ config.status = "saved"
    /\ \E l \in Layers :
           /\ UsedBefore(l)
           /\ \E i \in 1..Len(config.layers) :
                  \E n \in Range(config.layers[i].inbound_nodes) :
                      \E e \in Range(n) : e[1] = l /\ e[2] = 0

-----------------------------------------------------------------------------
(* The number of Nodes of a layer.                                          *)

\* C30, as stated: every layer has as many Nodes as invocations of it on
\* KerasTensors have returned.
C30_AsStated ==
    \A u \in AllLayers : Len(inbound_nodes[u]) = symbolic_returns[u]

\* A layer that is invoked has as many Nodes as invocations of it on
\* KerasTensors have returned; an Input() layer has the Node it was created
\* with.
C30_Count ==
    /\ \A u \in Layers : Len(inbound_nodes[u]) = symbolic_returns[u]
    /\ \A u \in InputLayers :
           symbolic_returns[u] = 0 /\ inbound_nodes[u] = <<InputNode(IF u = "input_a" THEN 1 ELSE 2)>>

\* An invocation on KerasTensors that returns appends one Node to the layer
\* invoked and to no other; an invocation on concrete values, and one that
\* raises, leaves every list of Nodes as it is.
C30_Step ==
    LET o == outcome'
        made == o.symbolic /\ o.status = "returned"
    IN /\ \A l \in AllLayers :
              /\ Len(inbound_nodes'[l]) =
                     Len(inbound_nodes[l]) + (IF made /\ l = o.layer THEN 1 ELSE 0)
              /\ SubSeq(inbound_nodes'[l], 1, Len(inbound_nodes[l])) = inbound_nodes[l]
       /\ ~made => /\ inbound_nodes' = inbound_nodes
                   /\ outbound_nodes' = outbound_nodes

\* C30 (amended): the number of Nodes of a layer other than an Input() layer
\* is the number of its invocations on KerasTensors that returned; each adds
\* one Node, and an invocation on concrete values adds none and changes no
\* list of inbound or outbound Nodes.
C30_Records == [](C30_Count) /\ [][C30_Step]_vars

\* `mid` was invoked on a KerasTensor, which returned, then on a KerasTensor
\* with `call` returning None, which raised, then on a concrete value.
C30_Witness ==
    /\ symbolic_returns["mid"] = 1
    /\ Len(inbound_nodes["mid"]) = 1
    /\ ncalls >= 3
    /\ outcome.layer = "mid"
    /\ ~outcome.symbolic
    /\ outcome.status = "returned"

-----------------------------------------------------------------------------
(* The losses added on concrete values, in several threads.  _eager_losses  *)
(* is an attribute of Layer._thread_local, a threading.local(): every       *)
(* thread reads and writes a list of its own.  The call context is local to *)
(* the thread as well.                                                      *)

\* The entry of `added` for an invocation: no loss.
NoLoss == [thread |-> 0, id |-> 0]

\* What the steps of an invocation leave alone.
unlost == <<learning_phase, stack, called, built, buildCount, weights,
            nextVar, tensors, inbound_nodes, outbound_nodes, ncalls,
            firstWeights, model, config, model_calls, output_shape_cache,
            shape_query, tracking, metric_vars, build_threads, raised,
            outcome_vars, loss_vars, replay_vars, load_vars, trainable_log,
            after_thread_losses>>

\* threading.local() with one namespace for all threads.
thread_local_shared(t) == 1

\* The namespace of self._thread_local that the thread reads and writes.
thread_local(t) == t

\* call_context.in_call always False: every invocation taken for an
\* outermost one.
outermost_always(t) == TRUE

\* not call_context.in_call
outermost(t) == call_context[t] = <<>>

\* Layer._eager_losses, read on the thread
eager_losses(t, u) == _thread_local[thread_local(t)][u]

\* Layer._clear_losses on the thread: the list of the layer and of every
\* layer it tracks is replaced by an empty one.
thread_clear_losses(t, u) ==
    [_thread_local EXCEPT ![thread_local(t)] =
        [l \in Layers |-> IF l \in flatten_layers(u) THEN <<>> ELSE @[l]]]

\* Layer.losses read on the thread: the eager losses of the layer and of the
\* layers it tracks, in the order of _flatten_layers.
RECURSIVE collected_losses(_, _, _)
collected_losses(buffers, t, u) ==
    LET sub == nested_layers(u)
        below[i \in 0..Len(sub)] ==
            IF i = 0 THEN <<>>
            ELSE below[i - 1] \o collected_losses(buffers, t, sub[i])
    IN buffers[thread_local(t)][u] \o below[Len(sub)]

losses(t, u) == collected_losses(_thread_local, t, u)

\* Layer.__call__ on concrete values is entered on the thread: the losses
\* are cleared when no invocation is in progress on it, and the call context
\* is entered.
LossCall(t, u) ==
    /\ Len(call_context[t]) < MaxNesting
    /\ u \notin Range(call_context[t])
    /\ Len(SelectSeq(added[t], LAMBDA a : a.loss = NoLoss)) < MaxNested
    /\ _thread_local' = IF outermost(t) THEN thread_clear_losses(t, u)
                        ELSE _thread_local
    /\ added' = [added EXCEPT ![t] =
                     IF call_context[t] = <<>> THEN <<>>
                     ELSE Append(@, [layer |-> u, loss |-> NoLoss])]
    /\ call_context' = [call_context EXCEPT ![t] = Append(@, u)]
    /\ UNCHANGED <<nlosses, returned, unlost>>

\* self.add_loss(tensor) in the `call` of the innermost invocation
AddLoss(t) ==
    /\ call_context[t] # <<>>
    /\ nlosses < MaxLosses
    /\ LET u == call_context[t][Len(call_context[t])]
           loss == [thread |-> t, id |-> nlosses + 1]
       IN /\ _thread_local' =
                 [_thread_local EXCEPT ![thread_local(t)][u] = Append(@, loss)]
          /\ added' = [added EXCEPT ![t] = Append(@, [layer |-> u, loss |-> loss])]
    /\ nlosses' = nlosses + 1
    /\ UNCHANGED <<call_context, returned, unlost>>

\* The innermost invocation of the thread ends, by return or by raise: the
\* call context is left.
LossCallEnds(t) ==
    /\ call_context[t] # <<>>
    /\ call_context' = [call_context EXCEPT ![t] = SubSeq(@, 1, Len(@) - 1)]
    /\ returned' =
           IF Len(call_context[t]) = 1
           THEN [returned EXCEPT ![t] = [layer |-> call_context[t][1],
                                         layers |-> flatten_layers(call_context[t][1]),
                                         losses |-> losses(t, call_context[t][1])]]
           ELSE returned
    /\ UNCHANGED <<_thread_local, nlosses, added, unlost>>

\* outer.a = mid or outer.b = inner, while no invocation is in progress.
ComposeLayers(a) ==
    /\ \A t \in 1..MaxThreads : call_context[t] = <<>>
    /\ SetAttr("outer", a[1], a[2])

\* Layers are composed and invoked on concrete values in one thread, their
\* `call` adding losses; the `call` of `outer` invokes `mid` and `inner`.
NextLosses ==
    \/ \E a \in FreezeAttrs : ComposeLayers(a)
    \/ \E u \in Layers :
           /\ call_context[1] # <<>> => u \in SubLayers(call_context[1][Len(call_context[1])])
           /\ LossCall(1, u)
    \/ AddLoss(1)
    \/ LossCallEnds(1)

SpecLosses == Init /\ [][NextLosses]_vars

\* `mid` is invoked on concrete values in two threads at once; its `call`
\* adds losses and invokes no layer.
NextThreadLosses ==
    \/ \E t \in 1..MaxThreads :
           call_context[t] = <<>> /\ LossCall(t, "mid")
    \/ \E t \in 1..MaxThreads : AddLoss(t)
    \/ \E t \in 1..MaxThreads : LossCallEnds(t)

SpecThreadLosses == Init /\ [][NextThreadLosses]_vars

\* No list of losses holds a loss that another thread added.
C31_Own ==
    \A t \in 1..MaxThreads : \A u \in Layers :
        \A i \in 1..Len(_thread_local[t][u]) : _thread_local[t][u][i].thread = t

\* A step of one thread, which enters or leaves an invocation or adds a
\* loss, leaves the lists of every other thread as they are.
C31_Step ==
    \A t \in 1..MaxThreads :
        (call_context'[t] # call_context[t] \/ added'[t] # added[t]) =>
            \A t2 \in 1..MaxThreads \ {t} : _thread_local'[t2] = _thread_local[t2]

\* C31: the losses added on concrete values are confined to the thread that
\* added them: no thread sees in `_eager_losses` a loss that another thread
\* added, and the clearing at the start of an outermost invocation in one
\* thread removes nothing from the lists of another.
C31_Confined == [](C31_Own) /\ [][C31_Step]_vars

\* Thread 1 added a loss to `mid`; after that thread 2 invoked `mid`, added a
\* loss and returned, and has entered `mid` again, which cleared its list:
\* the loss of thread 1 is still there.
C31_Witness ==
    /\ _thread_local[1]["mid"] = <<[thread |-> 1, id |-> 1]>>
    /\ returned[2].layer = "mid"
    /\ returned[2].losses = <<[thread |-> 2, id |-> 2]>>
    /\ call_context[2] = <<"mid">>
    /\ _thread_local[2]["mid"] = <<>>

\* The losses that the thread added since its outermost invocation began.
LossesAdded(t) == SelectSeq(added[t], LAMBDA a : a.loss # NoLoss)

\* The start of an invocation clears the lists of the layer and of the
\* layers it tracks when it is an outermost one, and no list otherwise.
C34_Step ==
    \A t \in 1..MaxThreads :
        Len(call_context'[t]) > Len(call_context[t]) =>
            LET u == call_context'[t][Len(call_context'[t])]
            IN IF call_context[t] = <<>>
               THEN \A l \in Layers :
                        _thread_local'[t][l] =
                            IF l \in flatten_layers(u) THEN <<>> ELSE _thread_local[t][l]
               ELSE _thread_local' = _thread_local

\* When the outermost invocation of a thread has ended, the `losses` it left
\* are the losses added during it to the layer and to the layers it tracks.
C34_Exactly ==
    \A t \in 1..MaxThreads :
        (call_context[t] = <<>> /\ returned[t].layer # None) =>
            /\ Range(returned[t].losses) =
                   {a.loss : a \in {b \in Range(LossesAdded(t)) :
                                       b.layer \in returned[t].layers}}
            /\ Len(returned[t].losses) =
                   Len(SelectSeq(LossesAdded(t),
                                 LAMBDA a : a.layer \in returned[t].layers))

\* C34: the losses added on concrete values are cleared, for the layer and
\* all the layers it tracks, when an outermost invocation begins and not when
\* a nested one begins; when it has ended, `losses` holds exactly the losses
\* added during it, those of every invocation of a tracked layer included.
C34_Cleared == [](C34_Exactly) /\ [][C34_Step]_vars

\* `outer`, which tracks `mid` and held a loss from an earlier invocation,
\* invoked `mid` twice, each time adding a loss, and has returned with the two.
C34_Witness ==
    \E t \in 1..MaxThreads :
        /\ call_context[t] = <<>>
        /\ returned[t].layer = "outer"
        /\ added[t] = <<[layer |-> "mid", loss |-> NoLoss],
                        [layer |-> "mid", loss |-> [thread |-> t, id |-> 2]],
                        [layer |-> "mid", loss |-> NoLoss],
                        [layer |-> "mid", loss |-> [thread |-> t, id |-> 3]]>>
        /\ Len(returned[t].losses) = 2

-----------------------------------------------------------------------------
(* The casting of the inputs to the compute dtype.  An input is named by    *)
(* its dtype; "object" is an input that is no Tensor, SparseTensor or       *)
(* RaggedTensor.                                                            *)

\* Everything but what the later sections add.
before_cast == <<learning_phase, stack, called, built, buildCount, weights,
                 nextVar, tensors, inbound_nodes, outbound_nodes, ncalls,
                 firstWeights, model, config, model_calls, output_shape_cache,
                 shape_query, tracking, metric_vars, build_threads, raised,
                 outcome_vars, loss_vars, replay_vars, load_vars, trainable_log,
                 thread_loss_vars>>

DTypes == {"float16", "float32", "float64", "int32"}

\* DType.is_floating
is_floating(d) == d \in {"float16", "float32", "float64"}

\* The dtype policies: float32, float16, float64, mixed_float16 and int32.
Policies ==
    {[compute_dtype |-> d, variable_dtype |-> d] : d \in DTypes}
    \cup {[compute_dtype |-> "float16", variable_dtype |-> "float32"]}

\* `inputs`: one input or a list of two.
CastInputs ==
    LET leaves == DTypes \cup {"object"}
    IN {<<x>> : x \in leaves} \cup {<<x, y>> : x \in leaves, y \in leaves}

\* isinstance(x, _AUTOCAST_TYPES)
autocast_type(x) == x \in DTypes

\* Layer._should_cast_single_input
should_cast_single_input(p, x) ==
    /\ autocast_type(x)
    /\ x # p.compute_dtype
    /\ is_floating(x)

\* Layer._cast_single_input
cast_single_input(p, x) ==
    IF should_cast_single_input(p, x) THEN p.compute_dtype ELSE x

\* _maybe_cast_inputs with no test of the compute dtype.
maybe_cast_inputs_any_compute(autocast, p, inputs) ==
    IF autocast /\ \E i \in 1..Len(inputs) : should_cast_single_input(p, inputs[i])
    THEN [i \in 1..Len(inputs) |-> cast_single_input(p, inputs[i])]
    ELSE inputs

\* Layer._maybe_cast_inputs
maybe_cast_inputs(autocast, p, inputs) ==
    LET should_autocast == autocast /\ is_floating(p.compute_dtype)
    IN IF should_autocast
          /\ \E i \in 1..Len(inputs) : should_cast_single_input(p, inputs[i])
       THEN [i \in 1..Len(inputs) |-> cast_single_input(p, inputs[i])]
       ELSE inputs

\* The dtype add_weight gives a weight when none is passed: self.dtype, the
\* variable dtype of the policy.
weight_dtype(p) == p.variable_dtype

\* Layer(dtype=policy, autocast=autocast), built with one weight, is invoked
\* on concrete inputs: `call` is given the inputs as _maybe_cast_inputs
\* leaves them, when self._autocast, and as they are otherwise.
CastCall(autocast, p, inputs) ==
    /\ cast' = [status |-> "called", autocast |-> autocast, policy |-> p,
                inputs |-> inputs,
                received |-> IF autocast THEN maybe_cast_inputs(autocast, p, inputs)
                             ELSE inputs,
                weight_before |-> weight_dtype(p),
                weight_after |-> weight_dtype(p)]
    /\ UNCHANGED <<before_cast, build_vars, ended, register_vars, connectivity,
                   store_vars, scope_vars>>

NextCast ==
    \E autocast \in BOOLEAN : \E p \in Policies : \E inputs \in CastInputs :
        CastCall(autocast, p, inputs)

SpecCast == Init /\ [][NextCast]_vars

\* C32, as stated: with autocast every floating input of another dtype than
\* the compute dtype reaches `call` in the compute dtype; every other input,
\* and every input without autocast, reaches it as it is; the weights keep
\* the variable dtype.
C32_AsStated ==
    cast.status = "called" =>
        /\ Len(cast.received) = Len(cast.inputs)
        /\ \A i \in 1..Len(cast.inputs) :
               cast.received[i] =
                   IF cast.autocast /\ is_floating(cast.inputs[i])
                      /\ cast.inputs[i] # cast.policy.compute_dtype
                   THEN cast.policy.compute_dtype
                   ELSE cast.inputs[i]
        /\ cast.weight_after = cast.policy.variable_dtype

\* C32 (amended): with autocast and a floating compute dtype every floating
\* input of another dtype reaches `call` in the compute dtype; every other
\* input, and every input without autocast or with a compute dtype that is
\* not floating, reaches it as it is; the weights keep the variable dtype.
C32_Cast ==
    cast.status = "called" =>
        /\ Len(cast.received) = Len(cast.inputs)
        /\ \A i \in 1..Len(cast.inputs) :
               cast.received[i] =
                   IF cast.autocast /\ is_floating(cast.policy.compute_dtype)
                      /\ is_floating(cast.inputs[i])
                      /\ cast.inputs[i] # cast.policy.compute_dtype
                   THEN cast.policy.compute_dtype
                   ELSE cast.inputs[i]
        /\ cast.weight_before = cast.policy.variable_dtype
        /\ cast.weight_after = cast.weight_before

\* A layer of policy mixed_float16 was invoked on a float32 and an int32
\* input: the first reached `call` as float16, the second as int32, and the
\* weight is float32.
C32_Witness ==
    /\ cast.status = "called"
    /\ cast.autocast
    /\ cast.policy = [compute_dtype |-> "float16", variable_dtype |-> "float32"]
    /\ cast.inputs = <<"float32", "int32">>
    /\ cast.received = <<"float16", "int32">>
    /\ cast.weight_after = "float32"

-----------------------------------------------------------------------------
(* Builds and invocations with input shapes.  A shape is named by the size  *)
(* of its last axis; the weights that build creates have that size.         *)

BuildShapes == 1..MaxShape

\* The layers whose build sets self.input_spec to demand the size of the
\* last axis it was given.
sets_input_spec(u) == u = "inner"

\* input_spec.assert_input_compatibility: a layer without input_spec
\* accepts every input.
assert_input_compatibility(u, s) == _input_spec[u] \in {0, s}

\* The build of the layer on a shape: its weights are created with the shape,
\* and Layer.build records the shape and sets `built`.
build_on(u, s) ==
    /\ build(u)
    /\ built' = [built EXCEPT ![u] = TRUE]
    /\ _build_input_shape' = [_build_input_shape EXCEPT ![u] = s]
    /\ _input_spec' = IF sets_input_spec(u) THEN [_input_spec EXCEPT ![u] = s]
                      ELSE _input_spec
    /\ weight_shapes' = [weight_shapes EXCEPT
                            ![u] = @ \o [i \in 1..BuildWeights(u) |-> s]]

BuildRequest(op, u, s, raises) ==
    [op |-> op, layer |-> u, shape |-> s, built_before |-> built[u],
     shape_before |-> _build_input_shape[u],
     weights_before |-> weight_shapes[u], weights_after |-> weight_shapes'[u],
     raised |-> raises]

unshaped == <<learning_phase, stack, tensors, inbound_nodes, outbound_nodes,
              model, config, model_calls, output_shape_cache, shape_query,
              tracking, metric_vars, build_threads, raised, outcome_vars,
              loss_vars, replay_vars, load_vars, trainable_log,
              thread_loss_vars, cast, ended, register_vars, connectivity,
              store_vars, scope_vars>>

\* layer.build(shape), or layer.build_from_config({"input_shape": shape}):
\* build runs whether or not the layer is built.
Build(u, s) ==
    /\ buildCount[u] < MaxBuilds
    /\ build_on(u, s)
    /\ build_request' = BuildRequest("build", u, s, FALSE)
    /\ UNCHANGED <<called, ncalls, unshaped>>

\* Layer.__call__ from the top level on a concrete input of the shape: the
\* input is checked against input_spec, and the layer is built when it is
\* not built.
ShapedCall(u, s) ==
    /\ ncalls < MaxCalls
    /\ ncalls' = ncalls + 1
    /\ called' = [called EXCEPT ![u] = TRUE]
    /\ IF ~assert_input_compatibility(u, s)
       THEN /\ UNCHANGED <<built, buildCount, weights, nextVar, firstWeights,
                           _build_input_shape, _input_spec, weight_shapes>>
            /\ build_request' = BuildRequest("call", u, s, TRUE)
       ELSE /\ IF built[u]
               THEN UNCHANGED <<built, buildCount, weights, nextVar, firstWeights,
                                _build_input_shape, _input_spec, weight_shapes>>
               ELSE build_on(u, s)
            /\ build_request' = BuildRequest("call", u, s, FALSE)
    /\ UNCHANGED unshaped

NextBuild ==
    \/ \E u \in Layers : \E s \in BuildShapes : Build(u, s)
    \/ \E u \in Layers : \E s \in BuildShapes : ShapedCall(u, s)

SpecBuild == Init /\ [][NextBuild]_vars

\* C33, as stated: a build request or an invocation of a built layer with
\* another shape than the one it was built for raised and left the shapes of
\* the layer's weights as they were.
C33_AsStated ==
    (/\ build_request.op # "none"
     /\ build_request.built_before
     /\ build_request.shape # build_request.shape_before)
        => /\ build_request.raised
           /\ build_request.weights_after = build_request.weights_before

-----------------------------------------------------------------------------
(* The call-context frames of the invocations                               *)

\* The frames that are entered are those of the invocations that began and
\* have not ended; outside every invocation the call context is the one
\* before the first invocation: no frame, and no propagated value.
C35_Balanced ==
    /\ Len(stack) = ncalls - ended
    /\ ~in_call => /\ stack = <<>>
                   /\ \A a \in ContextArgs : get_call_context_arg(stack, a) = None
                   /\ context_keys(stack) = {}

\* An invocation that begins enters one frame on top of the others, an
\* invocation that ends, by a return or by an exception, leaves the innermost
\* frame, and nothing else touches the frames.
C35_Step ==
    /\ ncalls' = ncalls + 1
          => /\ Len(stack') = Len(stack) + 1
             /\ SubSeq(stack', 1, Len(stack)) = stack
    /\ ended' = ended + 1
          => /\ in_call
             /\ stack = Append(stack', Top)
    /\ (ncalls' = ncalls /\ ended' = ended) => stack' = stack

\* C35: every call-context frame entered when an invocation begins is left
\* when that invocation ends, by a return or by an exception, on concrete
\* inputs and on KerasTensors; after an outermost invocation ended the call
\* context is as before it, with no propagated value in it.
C35_Popped == [](C35_Balanced) /\ [][C35_Step]_vars

\* Two invocations have ended, `outer` among them, and after them an
\* invocation of `inner` on concrete inputs, begun outside every invocation,
\* sees no foo_mode.
C35_Witness ==
    /\ Len(stack) = 1
    /\ ended = 2
    /\ Top.path = "immediate"
    /\ Top.layer = "inner"
    /\ Top.passed = NotPassed
    /\ Top.seen["foo_mode"] = None
    /\ called["outer"]

-----------------------------------------------------------------------------
(* Registering call-context arguments                                       *)

\* The names that are registered in these runs.
RegisterNames == {{"foo_mode"}, {"training", "foo_mode"}}

Registration(u, names, after, raises) ==
    [layer |-> u, names |-> names, called_before |-> called[u],
     before |-> _call_context_args[u], after |-> after, raised |-> raises]

\* A registration that would not look at `_called`.
register_call_context_args_unchecked(u, names) ==
    /\ _call_context_args' = [_call_context_args EXCEPT ![u] = @ \cup names]
    /\ registration' = Registration(u, names, _call_context_args'[u], FALSE)

\* Layer._register_call_context_args(*names): RuntimeError once the layer
\* has been called, otherwise the names are added.
register_call_context_args(u, names) ==
    IF called[u]
    THEN /\ registration' = Registration(u, names, _call_context_args[u], TRUE)
         /\ UNCHANGED _call_context_args
    ELSE /\ _call_context_args' = [_call_context_args EXCEPT ![u] = @ \cup names]
         /\ registration' = Registration(u, names, _call_context_args'[u], FALSE)

Register(u, names) ==
    /\ register_call_context_args(u, names)
    /\ UNCHANGED <<learning_phase, stack, called, built, buildCount, weights,
                   nextVar, tensors, inbound_nodes, outbound_nodes, ncalls,
                   firstWeights, model, config, model_calls, output_shape_cache,
                   shape_query, tracking, metric_vars, build_threads, raised,
                   outcome_vars, loss_vars, replay_vars, load_vars, trainable_log,
                   thread_loss_vars, cast, build_vars, ended, connectivity,
                   store_vars, scope_vars>>

\* What the caller passes in these runs: nothing, or foo_mode=True to a layer
\* that has it registered.
RegisterPassedChoices(u) ==
    {NotPassed} \cup
    {[NotPassed EXCEPT ![a] = True] : a \in call_context_args(u) \ {"training"}}

\* Registrations on every layer, from the top level and from inside `call`,
\* between invocations of `outer` and `mid` that return or raise.
NextRegister ==
    \/ \E u \in Layers, names \in RegisterNames : Register(u, names)
    \/ \E u \in {"outer", "mid"}, ca \in CtxCallArgs :
          \E passed \in RegisterPassedChoices(u) :
              Len(stack) < MaxWireDepth /\ Call(u, ca, passed)
    \/ ReturnImmediate
    \/ ReturnFunctional
    \/ CallRaisesRecorded

SpecRegister == Init /\ [][NextRegister]_vars

\* The last registration: on a layer that had been called it raised and left
\* the registered arguments as they were, on a layer that had not it added
\* the names.
C36_Registration ==
    registration.layer # None =>
        IF registration.called_before
        THEN registration.raised /\ registration.after = registration.before
        ELSE /\ ~registration.raised
             /\ registration.after = registration.before \cup registration.names

\* The registered arguments of a layer that has been called never change,
\* and a layer once called stays called.
C36_Step ==
    \A u \in Layers :
        called[u] => /\ called'[u]
                     /\ _call_context_args'[u] = _call_context_args[u]

\* C36: _register_call_context_args succeeds only before the first
\* invocation of the layer; once __call__ has been entered on it, also when
\* that invocation raised, registering raises RuntimeError and the
\* registered arguments stay as they were.
C36_OnlyBeforeCall == [](C36_Registration) /\ [][C36_Step]_vars

\* foo_mode was registered with `mid`, whose invocation then raised, and a
\* registration of `training` and `foo_mode` after it raised too.
C36_Witness ==
    /\ registration.layer = "mid"
    /\ registration.raised
    /\ registration.before = {"training", "foo_mode"}
    /\ raised["mid"]
    /\ ~in_call

-----------------------------------------------------------------------------
(* A variable assigned to an attribute that holds a variable                *)

\* Variables are assigned to the two attributes of one layer, the
\* attributes are deleted and weights are added, in any order.
NextReassign ==
    \/ \E n \in Names : \E o \in AllParams : SetAttr("mid", n, o)
    \/ \E n \in Names : DelAttr("mid", n)
    \/ \E p \in Params : AddWeight("mid", p)

SpecReassign == Init /\ [][NextReassign]_vars

\* The list of the layer that holds the variables of this kind.
weight_list(u, p) ==
    IF variable_trainable(p) THEN _trainable_weights[u] ELSE _non_trainable_weights[u]

\* The step assigns the variable `new` to an attribute of the layer that
\* holds the tracked variable `old` of the same kind; `new` is not tracked.
Reassigns(u, n, old, new) ==
    /\ attrs[u][n] = old /\ attrs'[u][n] = new
    /\ old \in AllParams /\ new \in AllParams /\ old # new
    /\ variable_trainable(old) = variable_trainable(new)
    /\ old \in Range(weight_list(u, old))
    /\ new \notin Range(weight_list(u, new))

\* C37, as stated: when an attribute that holds a tracked variable is
\* assigned a new variable, the new one has the index of the old one in the
\* list of its kind, the trainable or the non-trainable, and the other
\* variables keep their order.
C37_Replaced ==
    \A u \in Layers, n \in Names, old \in AllParams, new \in AllParams :
        Reassigns(u, n, old, new) =>
            /\ new \in Range(weight_list(u, new)')
            /\ IndexOf(weight_list(u, new)', new) = IndexOf(weight_list(u, old), old)
            /\ Without(Without(weight_list(u, new)', new), old)
                   = Without(weight_list(u, old), old)

C37_AsStated == [][C37_Replaced]_vars

-----------------------------------------------------------------------------
(* Inputs that `call` returns unmodified                                    *)

\* What `call` returns: one or two tensors, each fresh (0) or one of the
\* KerasTensors it was given.
ReturnedOutputs(flat_inputs) ==
    LET leaves == {0} \cup Range(KerasInputs(flat_inputs))
    IN {<<a>> : a \in leaves} \cup {<<a, b>> : a \in leaves, b \in leaves}

\* Layer.__call__ on KerasTensors from the top level, from entry to return,
\* of a layer whose `call` invokes no layer: what _set_connectivity_metadata
\* was given and what it returned is kept.
ConnectCall(u, ca, outs) ==
    /\ ~in_call
    /\ NodesCreated < MaxNodes
    /\ in_functional_construction_mode(ca.inputs, ca.args, ca.kwargs)
    /\ called' = [called EXCEPT ![u] = TRUE]
    /\ maybe_build(u)
    /\ ncalls' = ncalls + 1
    /\ set_connectivity_metadata(u, Flatten(ca.inputs, ca.args, ca.kwargs), outs)
    /\ connectivity' =
           [layer |-> u, flat_inputs |-> Flatten(ca.inputs, ca.args, ca.kwargs),
            call_outputs |-> outs,
            outputs |-> OutputIds(Flatten(ca.inputs, ca.args, ca.kwargs), outs),
            history_before |-> tensors]
    /\ UNCHANGED <<learning_phase, stack, model, config, model_calls,
                   output_shape_cache, shape_query, tracking, metric_vars,
                   build_threads, raised, outcome_vars, loss_vars, replay_vars,
                   load_vars, trainable_log, thread_loss_vars, cast, build_vars,
                   ended, register_vars, store_vars, scope_vars>>

NextConnect ==
    \E u \in Layers : \E ca \in WireCallArgs(u) :
        \E outs \in ReturnedOutputs(Flatten(ca.inputs, ca.args, ca.kwargs)) :
            ConnectCall(u, ca, outs)

SpecConnect == Init /\ [][NextConnect]_vars

\* C38: on KerasTensors no output that the invocation returns is the same
\* object as one of its input leaves: an output that `call` returned
\* unmodified from its inputs is replaced by a copy, a new tensor object
\* that refers back to the Node of this invocation, and the _keras_history
\* of the input, like that of every tensor that existed, is not overwritten.
C38_Copied ==
    connectivity.layer # None =>
        LET c == connectivity IN
        /\ \A i \in 1..Len(c.outputs) :
               /\ \A j \in 1..Len(c.flat_inputs) :
                      IsKerasTensor(c.flat_inputs[j]) => c.outputs[i] # c.flat_inputs[j]
               /\ c.outputs[i] > Len(c.history_before)
               /\ tensors[c.outputs[i]].layer = c.layer
               /\ tensors[c.outputs[i]].tensor_index = i - 1
               /\ \A k \in 1..Len(c.outputs) : k # i => c.outputs[k] # c.outputs[i]
        /\ \A t \in 1..Len(c.history_before) : tensors[t] = c.history_before[t]
        /\ Len(c.outputs) = Len(c.call_outputs)

\* `mid` was invoked on an Input() tensor passed as its second positional
\* argument and returned it twice; both outputs are copies, and the input
\* still refers to its Input layer.
C38_Witness ==
    /\ connectivity.layer = "mid"
    /\ connectivity.flat_inputs = <<0, 1>>
    /\ connectivity.call_outputs = <<1, 1>>
    /\ connectivity.outputs = <<3, 4>>
    /\ tensors[1] = KerasHistory("input_a", 0, 0)
    /\ tensors[4] = KerasHistory("mid", 0, 1)

-----------------------------------------------------------------------------
(* A store that is written and loaded again                                 *)

\* What the actions on stores and on tracked lists leave alone.
unstored == <<learning_phase, stack, called, built, buildCount, weights,
              nextVar, tensors, inbound_nodes, outbound_nodes, ncalls,
              firstWeights, model, config, model_calls, output_shape_cache,
              shape_query, attrs, _obj_reference_counts, _self_tracked_trackables,
              _trainable, metric_vars, build_threads, raised, outcome_vars,
              loss_vars, replay_vars, last_load, trainable_log, thread_loss_vars,
              cast, build_vars, ended, register_vars, connectivity, scope_vars>>

\* A variable that is in no tracked list.
Unlisted(p) == \A u \in Layers : p \notin Range(_tracked_list[u])

\* layer.vars.append(variable), for a list `vars` that was assigned to the
\* layer when it was empty: the list holds the variable, the weight lists
\* of the layer do not yet.
AppendToTrackedList(u, p) ==
    /\ Fresh(p)
    /\ Unlisted(p)
    /\ _tracked_list' = [_tracked_list EXCEPT ![u] = Append(@, p)]
    /\ UNCHANGED <<_trainable_weights, _non_trainable_weights, param_values,
                   store, unstored>>

\* A read of layer.trainable_weights, non_trainable_weights or weights:
\* each calls _update_trackables.
ReadWeights(u) ==
    /\ Store(u, update_trackables(u))
    /\ Tracked(u) # update_trackables(u)
    /\ UNCHANGED <<attrs, _trainable, _tracked_list, param_values, store,
                   learning_phase, stack, called, built, buildCount, weights,
                   nextVar, tensors, inbound_nodes, outbound_nodes, ncalls,
                   firstWeights, model, config, model_calls, output_shape_cache,
                   shape_query, metric_vars, build_threads, raised, outcome_vars,
                   loss_vars, replay_vars, last_load, trainable_log,
                   thread_loss_vars, cast, build_vars, ended, register_vars,
                   connectivity, scope_vars>>

\* variable.assign(value)
Assign(p, value) ==
    /\ param_values[p] # value
    /\ param_values' = [param_values EXCEPT ![p] = value]
    /\ UNCHANGED <<_trainable_weights, _non_trainable_weights, _tracked_list,
                   store, unstored>>

\* Layer.save_own_variables: the values of the layer's own variables under
\* the keys "0", "1", ..., as the list of them.
save_own_variables(u) ==
    LET all_vars == _trainable_weights[u] \o _non_trainable_weights[u]
    IN [i \in 1..Len(all_vars) |-> param_values[all_vars[i]]]

\* layer.save_own_variables(store), with an empty store
SaveOwnVariables(u) ==
    /\ store' = [layer |-> u, values |-> save_own_variables(u)]
    /\ UNCHANGED <<_trainable_weights, _non_trainable_weights, _tracked_list,
                   param_values, unstored>>

\* layer.load_own_variables(store), with the store that the layer wrote
LoadSaved ==
    /\ store.layer # None
    /\ LoadOwnVariables(store.layer, store.values)

\* Weights are added, variables appended to tracked lists and assigned
\* values, and the weights read, in any order; then a layer writes a store
\* and loads it.
NextStore ==
    \/ \E u \in Layers : \E p \in Params :
           store.layer = None /\ Unlisted(p) /\ AddWeight(u, p)
    \/ \E u \in Layers : \E p \in Params :
           store.layer = None /\ AppendToTrackedList(u, p)
    \/ \E u \in Layers : store.layer = None /\ ReadWeights(u)
    \/ \E p \in Params : \E value \in Values :
           store.layer = None /\ Assign(p, value)
    \/ \E u \in Layers : store.layer = None /\ SaveOwnVariables(u)
    \/ LoadSaved

SpecStore == Init /\ [][NextStore]_vars

\* C39, as stated: load_own_variables of a layer on the store that
\* save_own_variables of the same layer has just written does not raise and
\* leaves every variable with the value it had.
C39_AsStated ==
    (store.layer # None /\ last_load.op = "load_own_variables") =>
        /\ ~last_load.raised
        /\ param_values = last_load.before

-----------------------------------------------------------------------------
(* _name_scope_unnester.  A string is the sequence of its characters.       *)

Slash == "/"

\* The names that scopes are made of: 'a', 'b' and 'bab'.
ScopeSegments == {<<"a">>, <<"b">>, <<"b", "a", "b">>}

\* The full name scopes of n names: names joined by '/', as
\* tf.get_current_name_scope() returns them.
RECURSIVE ScopesOf(_)
ScopesOf(n) ==
    IF n = 1 THEN ScopeSegments
    ELSE {s \o <<Slash>> \o seg : s \in ScopesOf(n - 1), seg \in ScopeSegments}

ScopeNames == UNION {ScopesOf(n) : n \in 1..MaxScopeSegments}

\* str.lstrip(chars): the leading characters that are among `chars` are
\* removed.
RECURSIVE lstrip(_, _)
lstrip(s, chars) ==
    IF s # <<>> /\ Head(s) \in Range(chars) THEN lstrip(Tail(s), chars) ELSE s

\* _name_scope_unnester up to its yield: the stack is started with '' when it
\* is not set, the full name is pushed, and the relative name is made of the
\* two topmost entries.
name_scope_unnester(stk, full_name_scope) ==
    LET value == Append(IF stk = <<>> THEN <<<<>>>> ELSE stk, full_name_scope)
        full == value[Len(value)]
        outer_name_scope == value[Len(value) - 1]
        relative_name_scope == lstrip(lstrip(full, outer_name_scope), <<Slash>>)
    IN [value |-> value, full |-> full, outer |-> outer_name_scope,
        relative |-> relative_name_scope]

unscoped == <<learning_phase, stack, called, built, buildCount, weights,
              nextVar, tensors, inbound_nodes, outbound_nodes, ncalls,
              firstWeights, model, config, model_calls, output_shape_cache,
              shape_query, tracking, metric_vars, build_threads, raised,
              outcome_vars, loss_vars, replay_vars, load_vars, trainable_log,
              thread_loss_vars, cast, build_vars, ended, register_vars,
              connectivity, store_vars>>

\* The contexts that are open: the entries of the stack above ''.
OpenScopes == IF _name_scope_unnester_stack = <<>> THEN 0
              ELSE Len(_name_scope_unnester_stack) - 1

\* The scope of the innermost open context ('' when none is open).
OuterScope ==
    IF OpenScopes = 0 THEN <<>>
    ELSE _name_scope_unnester_stack[Len(_name_scope_unnester_stack)]

\* The full name scopes a context is entered with: any scope outside every
\* context; inside one, the enclosing scope with one more name, or the scope
\* of a layer declared in a scope of one name.
EnterChoices ==
    IF OpenScopes = 0 THEN ScopeNames
    ELSE {OuterScope \o <<Slash>> \o seg : seg \in ScopeSegments} \cup ScopeSegments

\* with _name_scope_unnester(full_name_scope) as relative: ...
EnterScope(full_name_scope) ==
    /\ OpenScopes < MaxScopes
    /\ \E r \in {name_scope_unnester(_name_scope_unnester_stack, full_name_scope)} :
           /\ _name_scope_unnester_stack' = r.value
           /\ yielded' = [entered |-> TRUE, full |-> r.full, outer |-> r.outer,
                          relative |-> r.relative]
    /\ UNCHANGED unscoped

\* The `with` block is left: the finally clause pops the stack.
LeaveScope ==
    /\ OpenScopes > 0
    /\ _name_scope_unnester_stack' =
           SubSeq(_name_scope_unnester_stack, 1, Len(_name_scope_unnester_stack) - 1)
    /\ UNCHANGED <<yielded, unscoped>>

NextScope ==
    \/ \E full_name_scope \in EnterChoices : EnterScope(full_name_scope)
    \/ LeaveScope

SpecScope == Init /\ [][NextScope]_vars

IsPrefix(p, s) == Len(p) <= Len(s) /\ SubSeq(s, 1, Len(p)) = p

\* The string without the '/' it ends with, if it ends with one.
WithoutTrailingSlash(s) ==
    IF s # <<>> /\ s[Len(s)] = Slash THEN SubSeq(s, 1, Len(s) - 1) ELSE s

\* C40, as stated: inside an enclosing context whose scope, followed by
\* '/', begins the full scope, the relative scope that is yielded is the
\* full scope without that prefix and with nothing else removed ('a/b' and
\* 'a/b/bab' yield 'bab'); with no enclosing context it is the full scope
\* without its trailing '/'.
C40_AsStated ==
    yielded.entered =>
        IF yielded.outer = <<>>
        THEN yielded.relative = WithoutTrailingSlash(yielded.full)
        ELSE IsPrefix(yielded.outer \o <<Slash>>, yielded.full) =>
                 yielded.relative =
                     SubSeq(yielded.full, Len(yielded.outer) + 2, Len(yielded.full))

====
